---- MODULE Spec2Model ----
(***************************************************************************)
(* Prosody analysis of prosody-coach (analyzer.py): the five analyzers     *)
(* analyze_pitch / analyze_volume / analyze_tempo / analyze_rhythm /       *)
(* analyze_pauses and the weighted aggregation of analyze_prosody.         *)
(*                                                                         *)
(* Numbers.  Frequencies (Hz) and intensities (dB) are integers; derived   *)
(* real quantities (percentiles, means, ratios) are exact rationals kept   *)
(* as scaled integers.  Two computations are carried out in IEEE-754       *)
(* binary64 as the interpreter does them, because their outcome depends    *)
(* on the rounding: the accumulation of sample times (t += 0.01) with the  *)
(* differences and comparisons of those times, and the weighted sums of    *)
(* analyze_prosody and analyze_tempo.  A binary64 value is kept as a pair  *)
(* (n, d) that stands for  n/D + d * 2^-Q / D : n counts the decimal unit  *)
(* 1/D (1/100 s for times, 1/20 for the overall score) and d is the        *)
(* deviation of the double from that decimal, in units of 2^-Q / D.        *)
(*                                                                         *)
(* Local variables of the code are parameters of the operator that models  *)
(* the statements after their assignment, so that each is computed once.   *)
(***************************************************************************)
EXTENDS Integers, Sequences, FiniteSets, TLC

\* ------------------------------------------------------------------------
\* IEEE-754 binary64, round-to-nearest-even, on decimal-anchored pairs
\* ------------------------------------------------------------------------

\* 2^k mod m for k < 75 and m <= 200, without leaving 32-bit integers:
\* 2^k = (2^15)^(k div 15) * 2^(k mod 15).
Pow2Mod(k, m) ==
    (((((2^15) % m)^(k \div 15)) % m) * ((2^(k % 15)) % m)) % m

\* floor(log2(n/D)) for n >= 1.
FlBinade(n, D) ==
    CHOOSE e \in -8..7 : D * 2^(e + 8) <= 256 * n /\ 256 * n < D * 2^(e + 9)

\* floor(log2(n/D + tiny d)) for n >= 1: the binade of the value, one lower
\* when the value lies just below the power of two n/D.
FlExpAt(n, d, D, e0) == IF 256 * n = D * 2^(e0 + 8) /\ d < 0 THEN e0 - 1 ELSE e0

FlExp(n, d, D) == FlExpAt(n, d, D, FlBinade(n, D))

\* The value moved to the multiple of G nearest to it, r2 being the value
\* modulo 2G: down by the remainder r, or up by G - r; a tie goes to the
\* even multiple.
FlNearest(n, d, G, r2) ==
    [n |-> n,
     d |-> IF 2 * (r2 % G) > G \/ (2 * (r2 % G) = G /\ r2 >= G)
           THEN d + (G - (r2 % G)) ELSE d - (r2 % G)]

\* Rounding in binade e: the spacing of doubles is 2^(e-52), that is
\* G = D * 2^s units for s = Q - 52 + e.
FlRoundIn(n, d, D, e, s) ==
    FlNearest(n, d, D * 2^s,
              (2^s * (((n % (2 * D)) * Pow2Mod(52 - e, 2 * D)) % (2 * D)) + d)
                  % (2 * D * 2^s))

FlRoundAt(n, d, D, Q, e) == FlRoundIn(n, d, D, e, Q - 52 + e)

\* The double nearest to the real  n/D + d * 2^-Q / D  (ties to even).
FlRound(n, d, D, Q) ==
    IF n = 0 THEN [n |-> 0, d |-> d] ELSE FlRoundAt(n, d, D, Q, FlExp(n, d, D))

FlAdd(x, y, D, Q) == FlRound(x.n + y.n, x.d + y.d, D, Q)
FlSub(x, y, D, Q) == FlRound(x.n - y.n, x.d - y.d, D, Q)
FlMulInt(k, x, D, Q) == FlRound(k * x.n, k * x.d, D, Q)
FlLt(x, y) == x.n < y.n \/ (x.n = y.n /\ x.d < y.d)
FlLe(x, y) == x.n < y.n \/ (x.n = y.n /\ x.d <= y.d)

\* ------------------------------------------------------------------------
\* analyze_prosody: the weighted overall score
\* ------------------------------------------------------------------------

\* The literal w/20 as a double, in twentieths (D = 20, Q = 55): 0.25, 0.20
\* and 0.15 are Weight(5), Weight(4) and Weight(3).
Weight(w) == FlRound(w, 0, 20, 55)

\* A term weighted 0.20 whatever its weight.
EqualTerm(score, w) == FlMulInt(score, Weight(4), 20, 55)

\* One term score * weight, and the sum of two doubles.
Term(score, w) == FlMulInt(score, Weight(w), 20, 55)
Plus(x, y) == FlAdd(x, y, 20, 55)

\* pitch*0.25 + volume*0.20 + tempo*0.20 + rhythm*0.20 + pause*0.15,
\* evaluated left to right in binary64.
WeightedSum(p, v, t, r, pa) ==
    Plus(Plus(Plus(Plus(Term(p, 5), Term(v, 4)), Term(t, 4)), Term(r, 4)), Term(pa, 3))

\* round(x, 1) for a double x = n/20 + deviation: the nearest tenth of the
\* exact binary value (an exact tie goes to the even tenth).  In tenths.
Round1(x) ==
    IF x.n % 2 = 0 THEN x.n \div 2
    ELSE IF x.d > 0 THEN x.n \div 2 + 1
    ELSE IF x.d < 0 THEN x.n \div 2
    ELSE IF (x.n \div 2) % 2 = 0 THEN x.n \div 2 ELSE x.n \div 2 + 1

OverallScore(p, v, t, r, pa) == Round1(WeightedSum(p, v, t, r, pa))

\* ------------------------------------------------------------------------
\* Exact rational helpers (numerator over a positive denominator)
\* ------------------------------------------------------------------------

Abs(a) == IF a < 0 THEN -a ELSE a
Max2(a, b) == IF a >= b THEN a ELSE b
Min2(a, b) == IF a <= b THEN a ELSE b

RECURSIVE Gcd(_, _)
Gcd(a, b) == IF b = 0 THEN a ELSE Gcd(b, a % b)

\* num/den in lowest terms (den > 0, num >= 0).
Frac(num, den) ==
    LET g == Gcd(num, den) IN [num |-> num \div g, den |-> den \div g]

FracAdd(a, b) ==
    LET g == Gcd(a.den, b.den)
    IN  Frac(a.num * (b.den \div g) + b.num * (a.den \div g), a.den * (b.den \div g))

\* int(num/den) for num/den >= 0: Python's int() truncates toward zero.
Trunc(num, den) == num \div den

\* round(num/den) to the nearest integer, an exact half going to the even
\* neighbour (Python's round and numpy's rint), for num/den >= 0.
RoundHalfEven(num, den) ==
    LET q == num \div den
        r == num % den
    IN  IF 2 * r < den THEN q
        ELSE IF 2 * r > den THEN q + 1
        ELSE IF q % 2 = 0 THEN q ELSE q + 1

\* Sum of a sequence of integers over the index range lo..hi, and of their
\* squares (split in halves to keep the evaluation shallow).
RECURSIVE SumRange(_, _, _)
SumRange(a, lo, hi) ==
    IF lo > hi THEN 0
    ELSE IF lo = hi THEN a[lo]
    ELSE SumRange(a, lo, (lo + hi) \div 2) + SumRange(a, (lo + hi) \div 2 + 1, hi)

SumSeq(a, k) == SumRange(a, 1, k)
SumSq(a, k) == SumRange([i \in 1..k |-> a[i] * a[i]], 1, k)

SeqMin(a) == CHOOSE v \in {a[i] : i \in 1..Len(a)} : \A i \in 1..Len(a) : v <= a[i]
SeqMax(a) == CHOOSE v \in {a[i] : i \in 1..Len(a)} : \A i \in 1..Len(a) : v >= a[i]

\* n^2 times the population variance of a:  n * sum(a^2) - sum(a)^2.
VarN2(a) == Len(a) * SumSq(a, Len(a)) - SumSeq(a, Len(a)) * SumSeq(a, Len(a))

\* k-th smallest element of a (k counted from 0), as np.percentile's
\* partition finds it.
Kth(a, k) ==
    CHOOSE v \in {a[i] : i \in 1..Len(a)} :
        /\ Cardinality({i \in 1..Len(a) : a[i] <= v}) > k
        /\ Cardinality({i \in 1..Len(a) : a[i] < v}) <= k

\* np.percentile(a, q) with the default linear interpolation, times 100:
\* position q/100 * (n-1) between the two neighbouring order statistics.
\* Defined for a non-empty a only; the caller guards it.
Percentile100(a, q) ==
    LET pos == q * (Len(a) - 1)
        lo  == Kth(a, pos \div 100)
        hi  == Kth(a, Min2(pos \div 100 + 1, Len(a) - 1))
    IN  100 * lo + (hi - lo) * (pos % 100)

\* ------------------------------------------------------------------------
\* config.py: the threshold tables (module-level dictionaries)
\* ------------------------------------------------------------------------

PITCH_CONFIG ==
    [min_target |-> 75, max_target |-> 250, good_range |-> 100, excellent_range |-> 150]

VOLUME_CONFIG ==
    [good_contrast_db |-> 6, excellent_contrast_db |-> 10, min_dynamic_range |-> 15]

TEMPO_CONFIG ==
    [min_wpm |-> 100, max_wpm |-> 180, ideal_wpm |-> 140,
     good_variation |-> 15, excellent_variation |-> 25]

RHYTHM_CONFIG ==
    [spanish_typical |-> 40, english_target |-> 55, english_native |-> 65]

\* Durations of PAUSE_CONFIG are in hundredths of a second (0.2 s, 0.5 s, 2.0 s).
PAUSE_CONFIG ==
    [min_pause_duration |-> 20, ideal_pause_duration |-> 50, max_pause_duration |-> 200,
     good_pause_rate |-> 3, excellent_pause_rate |-> 5]

ModuleConfig ==
    [pitch |-> PITCH_CONFIG, volume |-> VOLUME_CONFIG, tempo |-> TEMPO_CONFIG,
     rhythm |-> RHYTHM_CONFIG, pause |-> PAUSE_CONFIG]

\* ------------------------------------------------------------------------
\* analyze_pitch
\* ------------------------------------------------------------------------

\* An exception leaving an analyzer.
Raised(what) == [kind |-> "error", error |-> what]

\* round(sqrt(v2 / n^2), 1) in tenths, for v2 = n^2 * variance.
StdTenths(v2, n) ==
    CHOOSE t \in 0..2000 :
        /\ (t = 0 \/ (2 * t - 1) * (2 * t - 1) * n * n <= 400 * v2)
        /\ 400 * v2 < (2 * t + 1) * (2 * t + 1) * n * n

\* The frames as they are, unvoiced ones included.
AllFrames(f0) == f0

\* pitch_values[pitch_values > 0]
Voiced(f0) == SelectSeq(f0, LAMBDA f : f > 0)

\* The segments of the pitch score with the fraction rounded to the nearest
\* integer instead of dropped.
PitchScoreRounded(range_hz, cfg) ==
    IF range_hz >= cfg.excellent_range THEN 10
    ELSE IF range_hz >= cfg.good_range
    THEN 7 + RoundHalfEven((range_hz - cfg.good_range) * 3,
                           cfg.excellent_range - cfg.good_range)
    ELSE IF range_hz >= 50
    THEN 4 + RoundHalfEven((range_hz - 50) * 3, cfg.good_range - 50)
    ELSE Max2(1, RoundHalfEven(range_hz * 4, 50))

\* The lowest segment of the pitch score without its floor of 1 and
\* without the final clamp.
PitchScoreUnfloored(range_hz, cfg) == Trunc(range_hz * 4, 50)

\* The four-segment score of analyze_pitch on the range in Hz.
PitchScore(range_hz, cfg) ==
    LET raw == IF range_hz >= cfg.excellent_range THEN 10
               ELSE IF range_hz >= cfg.good_range
                    THEN 7 + Trunc((range_hz - cfg.good_range) * 3,
                                   cfg.excellent_range - cfg.good_range)
               ELSE IF range_hz >= 50
                    THEN 4 + Trunc((range_hz - 50) * 3, cfg.good_range - 50)
               ELSE Max2(1, Trunc(range_hz * 4, 50))
    IN  Min2(10, Max2(1, raw))

PitchFeedback(range_hz, cfg) ==
    IF range_hz < 50 THEN "Very monotone"
    ELSE IF range_hz < cfg.good_range THEN "Limited variation"
    ELSE IF range_hz < cfg.excellent_range THEN "Good range"
    ELSE "Excellent pitch variation"

\* analyze_pitch on the frequency array of the pitch object (0 = unvoiced).
\* Metrics are in tenths of a Hz, as round(.., 1) leaves them.
analyze_pitch(f0, cfg) ==
    LET voiced_values == Voiced(f0)
        n == Len(voiced_values)
    IN  IF n = 0
        THEN [kind |-> "report", score |-> 1, min_hz |-> 0, max_hz |-> 0, mean_hz |-> 0,
              range_hz |-> 0, std_hz |-> 0,
              feedback |-> <<"No voiced speech detected", 0>>]
        ELSE LET min_hz == SeqMin(voiced_values)
                 max_hz == SeqMax(voiced_values)
                 range_hz == max_hz - min_hz
             IN  [kind |-> "report",
                  score |-> PitchScore(range_hz, cfg),
                  min_hz |-> 10 * min_hz,
                  max_hz |-> 10 * max_hz,
                  mean_hz |-> RoundHalfEven(10 * SumSeq(voiced_values, n), n),
                  range_hz |-> 10 * range_hz,
                  std_hz |-> StdTenths(VarN2(voiced_values), n),
                  feedback |-> <<PitchFeedback(range_hz, cfg), range_hz>>]

\* ------------------------------------------------------------------------
\* The intensity contour and its resampling
\* ------------------------------------------------------------------------

\* "Get value at time" yields no value (None / NaN) outside the frames.
NaN == -1

\* Times are doubles in hundredths of a second (D = 100, Q = 59).
TimeOf(cs) == FlRound(cs, 0, 100, 59)
TimeAdd(a, b) == FlAdd(a, b, 100, 59)
TimeSub(a, b) == FlSub(a, b, 100, 59)

\* An intensity contour: start_time and end_time are doubles, time_step is
\* the contour's own frame step in samples of 10 ms, and values[i + 1] is
\* "Get value at time" at the i-th multiple of 10 ms after start_time.
ValueAt(intensity, i) ==
    IF i < Len(intensity.values) THEN intensity.values[i + 1] ELSE NaN

\* t = start_time; while t <= end_time: ...; t += step -- one turn of the
\* loop on the pair (t, the times taken so far); nothing once t > end_time.
TickStep(st, step, end_time) ==
    IF FlLe(st.t, end_time)
    THEN [t |-> TimeAdd(st.t, step), ticks |-> Append(st.ticks, st.t)]
    ELSE st

\* k turns of the loop, run in order (split in halves to keep the
\* evaluation shallow).
RECURSIVE TickLoop(_, _, _, _)
TickLoop(st, k, step, end_time) ==
    IF k = 0 THEN st
    ELSE IF k = 1 THEN TickStep(st, step, end_time)
    ELSE LET half == TickLoop(st, k \div 2, step, end_time)
         IN  IF half.t.n >= 0 THEN TickLoop(half, k - k \div 2, step, end_time) ELSE half

\* The times t takes in the loop.  The loop ends within
\* (end_time - start_time) / step + 2 turns.
Ticks(start_time, step, end_time) ==
    IF FlLe(start_time, end_time)
    THEN TickLoop([t |-> start_time, ticks |-> << >>],
                  (end_time.n - start_time.n) \div step.n + 2, step, end_time).ticks
    ELSE << >>

\* The turns of the loop in which "Get value at time" has a value
\* (value is not None and not np.isnan(value)); step in samples of 10 ms.
ValidTicks(intensity, ticks, step) ==
    SelectSeq([k \in 1..Len(ticks) |-> k],
              LAMBDA k : ValueAt(intensity, (k - 1) * step) # NaN)

\* The values and the times appended in the turns ix of the loop.
Appended(intensity, ticks, step, ix) ==
    [intensity_values |-> [j \in 1..Len(ix) |-> ValueAt(intensity, (ix[j] - 1) * step)],
     times |-> [j \in 1..Len(ix) |-> ticks[ix[j]]]]

Sampled(intensity, ticks, step) ==
    Appended(intensity, ticks, step, ValidTicks(intensity, ticks, step))

\* The loop of analyze_tempo / analyze_rhythm / analyze_pauses with
\* time_step = 0.01: the valid samples and their times, in order.
Resample(intensity) ==
    Sampled(intensity, Ticks(intensity.start_time, TimeOf(1), intensity.end_time), 1)

\* The loop of analyze_volume, whose step is the contour's "Get time step".
ResampleVolume(intensity) ==
    Sampled(intensity,
            Ticks(intensity.start_time, TimeOf(intensity.time_step), intensity.end_time),
            intensity.time_step).intensity_values

\* ------------------------------------------------------------------------
\* analyze_volume
\* ------------------------------------------------------------------------

\* A volume score with three segments: no segment from 3 dB to the good
\* contrast.
VolumeScoreThreeSegments(contrast100, cfg) ==
    IF contrast100 >= 100 * cfg.excellent_contrast_db THEN 10
    ELSE IF contrast100 >= 100 * cfg.good_contrast_db
    THEN 7 + Trunc((contrast100 - 100 * cfg.good_contrast_db) * 3,
                   100 * (cfg.excellent_contrast_db - cfg.good_contrast_db))
    ELSE Max2(1, Trunc(contrast100 * 4, 300))

\* The four-segment score of analyze_volume; contrast100 is the stress
\* contrast in hundredths of a dB.
VolumeScore(contrast100, cfg) ==
    LET raw == IF contrast100 >= 100 * cfg.excellent_contrast_db THEN 10
               ELSE IF contrast100 >= 100 * cfg.good_contrast_db
                    THEN 7 + Trunc((contrast100 - 100 * cfg.good_contrast_db) * 3,
                                   100 * (cfg.excellent_contrast_db - cfg.good_contrast_db))
               ELSE IF contrast100 >= 300
                    THEN 4 + Trunc((contrast100 - 300) * 3, 100 * (cfg.good_contrast_db - 3))
               ELSE Max2(1, Trunc(contrast100 * 4, 300))
    IN  Min2(10, Max2(1, raw))

VolumeFeedback(contrast100, cfg) ==
    IF contrast100 < 300 THEN "Very flat volume"
    ELSE IF contrast100 < 100 * cfg.good_contrast_db THEN "Low stress contrast"
    ELSE IF contrast100 < 100 * cfg.excellent_contrast_db THEN "Good volume variation"
    ELSE "Excellent volume dynamics"

\* speech_values: the samples above 40 dB; above the 20th percentile if
\* fewer than 10 of those remain; all samples if none remains.
AboveOrAll(intensity_values, relaxed) ==
    IF Len(relaxed) = 0 THEN intensity_values ELSE relaxed

\* The samples at or above the percentile instead of above it.
AtOrAbovePercentile(intensity_values, p100) ==
    SelectSeq(intensity_values, LAMBDA v : 100 * v >= p100)

AbovePercentile(intensity_values, p100) ==
    SelectSeq(intensity_values, LAMBDA v : 100 * v > p100)

RelaxedValues(intensity_values, above40) ==
    IF Len(above40) < 10
    THEN AbovePercentile(intensity_values, Percentile100(intensity_values, 20))
    ELSE above40

SpeechValues(intensity_values) ==
    AboveOrAll(intensity_values,
               RelaxedValues(intensity_values, SelectSeq(intensity_values, LAMBDA v : v > 40)))

\* The VolumeAnalysis of the statistics in hundredths of a dB (mean_db in
\* tenths); the report is in tenths of a dB.
VolumeReport(min_db, max_db, mean_db, stress_contrast_db, cfg) ==
    [kind |-> "report",
     score |-> VolumeScore(stress_contrast_db, cfg),
     min_db |-> RoundHalfEven(min_db, 10),
     max_db |-> RoundHalfEven(max_db, 10),
     mean_db |-> mean_db,
     dynamic_range_db |-> RoundHalfEven(max_db - min_db, 10),
     stress_contrast_db |-> RoundHalfEven(stress_contrast_db, 10),
     feedback |-> <<VolumeFeedback(stress_contrast_db, cfg),
                    RoundHalfEven(stress_contrast_db, 10)>>]

VolumeStats(speech_values, cfg) ==
    VolumeReport(Percentile100(speech_values, 5), Percentile100(speech_values, 95),
                 RoundHalfEven(10 * SumSeq(speech_values, Len(speech_values)),
                               Len(speech_values)),
                 Percentile100(speech_values, 75) - Percentile100(speech_values, 25), cfg)

VolumeOf(intensity_values, cfg) ==
    IF Len(intensity_values) = 0
    THEN [kind |-> "report", score |-> 1, min_db |-> 0, max_db |-> 0, mean_db |-> 0,
          dynamic_range_db |-> 0, stress_contrast_db |-> 0,
          feedback |-> <<"No intensity data detected", 0>>]
    ELSE VolumeStats(SpeechValues(intensity_values), cfg)

\* analyze_volume; metrics in tenths of a dB.
analyze_volume(intensity, cfg) == VolumeOf(ResampleVolume(intensity), cfg)

\* ------------------------------------------------------------------------
\* scipy.signal.find_peaks as analyze_tempo and analyze_rhythm call it
\* ------------------------------------------------------------------------

\* Local maxima of x: a sample, or a flat run of samples, strictly higher
\* than the sample before and the sample after it.  A flat run is reported
\* at its middle sample (rounded down); the first and last samples of x are
\* never maxima.  Indices count from 1.
LocalMaxima(x) ==
    LET n == Len(x)
        RightEdge(l) == CHOOSE r \in l..n :
                            /\ \A j \in l..r : x[j] = x[l]
                            /\ (r = n \/ x[r + 1] # x[l])
    IN  {(l + RightEdge(l)) \div 2 :
            l \in {i \in 2..n : x[i - 1] < x[i] /\ RightEdge(i) < n
                                /\ x[RightEdge(i) + 1] < x[i]}}

\* height=threshold: peaks at least as high as threshold100 / 100.
SelectByHeight(x, peaks, threshold100) == {p \in peaks : 100 * x[p] >= threshold100}

\* distance=d: peaks are visited from the highest to the lowest (of equal
\* peaks the later one first, as the stable argsort of a short array orders
\* them); a visited peak that is still kept removes every peak closer than d.
RECURSIVE SelectByDistance(_, _, _, _)
SelectByDistance(x, todo, keep, d) ==
    IF todo = {} THEN keep
    ELSE LET j == CHOOSE p \in todo :
                      \A q \in todo : x[q] < x[p] \/ (x[q] = x[p] /\ q <= p)
         IN  IF j \in keep
             THEN SelectByDistance(x, todo \ {j},
                                   {q \in keep : q = j \/ Abs(q - j) >= d}, d)
             ELSE SelectByDistance(x, todo \ {j}, keep, d)

\* The prominence of peak p: its height above the higher of the two lowest
\* points between p and the nearest higher sample on each side (or the end
\* of x).
Prominence(x, p) ==
    LET n == Len(x)
        higherLeft  == {i \in 1..(p - 1) : x[i] > x[p]}
        higherRight == {i \in (p + 1)..n : x[i] > x[p]}
        lb == IF higherLeft = {} THEN 1
              ELSE (CHOOSE i \in higherLeft : \A k \in higherLeft : k <= i) + 1
        rb == IF higherRight = {} THEN n
              ELSE (CHOOSE i \in higherRight : \A k \in higherRight : k >= i) - 1
        left_min  == CHOOSE v \in {x[i] : i \in lb..p} : \A i \in lb..p : v <= x[i]
        right_min == CHOOSE v \in {x[i] : i \in p..rb} : \A i \in p..rb : v <= x[i]
    IN  x[p] - Max2(left_min, right_min)

\* prominence = 0.15 * np.std(x): peaks whose prominence is at least that,
\* i.e. prominence^2 * 400 * n^2 >= 9 * (n^2 * variance).  The values are
\* taken relative to the lowest one, which changes neither side.
SelectByProminence(x, peaks) ==
    LET n == Len(x)
        base == SeqMin(x)
        v2 == VarN2([i \in 1..n |-> x[i] - base])
    IN  {p \in peaks : Prominence(x, p) * Prominence(x, p) * n * n >= (9 * v2 + 399) \div 400}

\* A set of indices as the increasing sequence find_peaks returns.
RECURSIVE SortedSeq(_)
SortedSeq(S) ==
    IF S = {} THEN << >>
    ELSE LET m == CHOOSE p \in S : \A q \in S : q <= p
         IN  Append(SortedSeq(S \ {m}), m)

\* find_peaks(intensity_values, distance=10, height=threshold, prominence=..)
FindPeaksTempo(x) ==
    LET byHeight == SelectByHeight(x, LocalMaxima(x), Percentile100(x, 30))
    IN  SortedSeq(SelectByProminence(x, SelectByDistance(x, byHeight, byHeight, 10)))

\* find_peaks(intensity_values, distance=10, height=threshold)
FindPeaksRhythm(x) ==
    LET byHeight == SelectByHeight(x, LocalMaxima(x), Percentile100(x, 40))
    IN  SortedSeq(SelectByDistance(x, byHeight, byHeight, 10))

\* ------------------------------------------------------------------------
\* analyze_tempo
\* ------------------------------------------------------------------------

\* Too short only below 5 samples.
TooShortBelow5(intensity_values) == Len(intensity_values) < 5

\* No sequence is too short.
NeverTooShort(intensity_values) == FALSE

\* len(intensity_values) < 10: too short for tempo analysis.
TempoTooShort(intensity_values) == Len(intensity_values) < 10

\* np.diff of the times of the peaks: the inter-syllable intervals (doubles).
PeakIntervals(times, peaks) ==
    [i \in 1..(Len(peaks) - 1) |-> TimeSub(times[peaks[i + 1]], times[peaks[i]])]

\* all_intervals[(all_intervals >= 0.1) & (all_intervals <= 0.6)]
SpeechIntervals(all_intervals) ==
    SelectSeq(all_intervals, LAMBDA iv : FlLe(TimeOf(10), iv) /\ FlLe(iv, TimeOf(60)))

\* The coefficient of variation (np.std / np.mean) * 100 as the pair
\* (v2, s) that stands for 100 * sqrt(v2) / s, capped at 100: v2 is k^2
\* times the variance and s the sum of the k interval lengths.
CappedVariation(v2, s) ==
    IF v2 >= s * s THEN [v2 |-> 1, s |-> 1] ELSE [v2 |-> v2, s |-> s]

\* variation_percent of the lengths d of the speech intervals; 0 unless
\* more than 2 intervals remain.
VariationOf(d) ==
    IF Len(d) > 2 THEN CappedVariation(VarN2(d), SumSeq(d, Len(d)))
    ELSE [v2 |-> 0, s |-> 1]

Variation(speech_intervals) ==
    VariationOf([i \in 1..Len(speech_intervals) |-> speech_intervals[i].n])

\* variation_percent >= c, and variation_percent > c
VariationAtLeast(var, c) == 10000 * var.v2 >= c * c * var.s * var.s
VariationAbove(var, c) == 10000 * var.v2 > c * c * var.s * var.s

\* The t with (2t - 1)^2 <= r < (2t + 1)^2: sqrt(r) / 2 rounded.
HalfRoot(r) ==
    CHOOSE t \in 0..1000 :
        /\ (t = 0 \/ (2 * t - 1) * (2 * t - 1) <= r)
        /\ r < (2 * t + 1) * (2 * t + 1)

\* round(variation_percent, 1) in tenths: HalfRoot of 4 * 10^6 * v2 / s^2.
VariationTenths(var) ==
    HalfRoot(((var.v2 * 2000) \div (var.s * var.s)) * 2000
             + (((var.v2 * 2000) % (var.s * var.s)) * 2000) \div (var.s * var.s))

\* estimated_wpm = (syllable_count / duration) * 60 / 1.4 as a fraction;
\* duration in hundredths of a second, syllables_per_second 0 if it is 0.
EstimatedWpm(syllable_count, duration_cs) ==
    IF duration_cs > 0 THEN Frac(syllable_count * 30000, 7 * duration_cs)
    ELSE [num |-> 0, den |-> 1]

WpmInRange(wpm, cfg) ==
    ~(wpm.num < cfg.min_wpm * wpm.den) /\ ~(wpm.num > cfg.max_wpm * wpm.den)

\* The WPM sub-score without its floors of 2 and of 7.
WpmScoreUnfloored(wpm, cfg) ==
    IF wpm.num < cfg.min_wpm * wpm.den
    THEN Trunc(wpm.num * 6, cfg.min_wpm * wpm.den)
    ELSE IF wpm.num > cfg.max_wpm * wpm.den
    THEN 8 - Trunc(wpm.num - cfg.max_wpm * wpm.den, 15 * wpm.den)
    ELSE 10 - Trunc(Abs(wpm.num - cfg.ideal_wpm * wpm.den), 20 * wpm.den)

WpmScore(wpm, cfg) ==
    IF wpm.num < cfg.min_wpm * wpm.den
    THEN Max2(2, Trunc(wpm.num * 6, cfg.min_wpm * wpm.den))
    ELSE IF wpm.num > cfg.max_wpm * wpm.den
    THEN Max2(2, 8 - Trunc(wpm.num - cfg.max_wpm * wpm.den, 15 * wpm.den))
    ELSE Max2(7, 10 - Trunc(Abs(wpm.num - cfg.ideal_wpm * wpm.den), 20 * wpm.den))

VariationScore(var, cfg) ==
    IF VariationAtLeast(var, cfg.excellent_variation) THEN 10
    ELSE IF VariationAtLeast(var, cfg.good_variation) THEN 7
    ELSE IF VariationAtLeast(var, 5) THEN 5
    ELSE 3

\* int(x) for a double x >= 0 in tenths: the fraction is dropped.
IntOfTenths(x) == IF x.n % 10 = 0 /\ x.d < 0 THEN x.n \div 10 - 1 ELSE x.n \div 10

\* int(wpm_score * 0.7 + variation_score * 0.3) in binary64 (tenths:
\* D = 10, Q = 54).
CombinedScore(wpm_score, variation_score) ==
    IntOfTenths(FlAdd(FlMulInt(wpm_score, FlRound(7, 0, 10, 54), 10, 54),
                      FlMulInt(variation_score, FlRound(3, 0, 10, 54), 10, 54), 10, 54))

\* if wpm < min_wpm or wpm > max_wpm: score = min(score, 7)
CappedScore(score, in_range) == IF ~in_range THEN Min2(score, 7) ELSE score

TempoScore(wpm, var, cfg) ==
    Min2(10, Max2(1, CappedScore(CombinedScore(WpmScore(wpm, cfg), VariationScore(var, cfg)),
                                 WpmInRange(wpm, cfg))))

TempoFeedback(wpm, var, cfg) ==
    <<IF wpm.num < cfg.min_wpm * wpm.den THEN "Too slow"
      ELSE IF wpm.num > cfg.max_wpm * wpm.den THEN "Too fast"
      ELSE "Good pace",
      RoundHalfEven(wpm.num, wpm.den),
      IF ~VariationAtLeast(var, cfg.good_variation) THEN "Speed too constant"
      ELSE IF VariationAbove(var, cfg.excellent_variation) THEN "Good speed variation"
      ELSE "">>

\* The report for too few samples.
TempoTooShortReport ==
    [kind |-> "report", score |-> 5, syllables_per_second |-> 0,
     estimated_wpm |-> 0, variation_percent |-> 0,
     feedback |-> <<"Audio too short for tempo analysis", 0, "">>]

\* The TempoAnalysis: syllables_per_second in hundredths, estimated_wpm
\* whole, variation_percent in tenths.
TempoReport(syllable_count, duration_cs, wpm, var, cfg) ==
    [kind |-> "report",
     score |-> TempoScore(wpm, var, cfg),
     syllables_per_second |->
         IF duration_cs > 0 THEN RoundHalfEven(syllable_count * 10000, duration_cs) ELSE 0,
     estimated_wpm |-> RoundHalfEven(wpm.num, wpm.den),
     variation_percent |-> VariationTenths(var),
     feedback |-> TempoFeedback(wpm, var, cfg)]

\* The statements of analyze_tempo after find_peaks.
TempoOfPeaks(times, peaks, duration_cs, cfg) ==
    TempoReport(Len(peaks), duration_cs, EstimatedWpm(Len(peaks), duration_cs),
                Variation(SpeechIntervals(IF Len(peaks) > 1 THEN PeakIntervals(times, peaks)
                                          ELSE << >>)),
                cfg)

\* The statements of analyze_tempo after the resampling loop.
TempoOf(rs, duration_cs, cfg) ==
    IF TempoTooShort(rs.intensity_values) THEN TempoTooShortReport
    ELSE IF Len(rs.intensity_values) = 0
    THEN Raised("np.percentile of an empty array")
    ELSE TempoOfPeaks(rs.times, FindPeaksTempo(rs.intensity_values), duration_cs, cfg)

analyze_tempo(intensity, cfg) ==
    TempoOf(Resample(intensity), TimeSub(intensity.end_time, intensity.start_time).n, cfg)

\* ------------------------------------------------------------------------
\* analyze_rhythm
\* ------------------------------------------------------------------------

\* len(intensity_values) < 20: too short for rhythm analysis.
RhythmTooShort(intensity_values) == Len(intensity_values) < 20

\* The report of the first early return of analyze_rhythm; pvi in tenths.
RhythmTooShortReport ==
    [kind |-> "report", score |-> 5, pvi |-> 0, is_syllable_timed |-> TRUE,
     feedback |-> <<"Audio too short for rhythm analysis", 0>>]

\* The report of the second and third early returns (too few nuclei, too
\* few valid intervals): pvi = 40.
RhythmNeutralReport(why) ==
    [kind |-> "report", score |-> 5, pvi |-> 400, is_syllable_timed |-> TRUE,
     feedback |-> <<why, 0>>]

\* The intervals between successive peaks with 0.05 < interval < 1.0.
RhythmIntervals(times, peaks) ==
    SelectSeq(PeakIntervals(times, peaks),
              LAMBDA iv : FlLt(TimeOf(5), iv) /\ FlLt(iv, TimeOf(100)))

\* pvi_sum over the first k pairs: sum of |d1 - d2| / ((d1 + d2) / 2), on
\* the lengths of the intervals in hundredths of a second.
RECURSIVE PviSum(_, _)
PviSum(intervals, k) ==
    IF k = 0 THEN [num |-> 0, den |-> 1]
    ELSE FracAdd(PviSum(intervals, k - 1),
                 Frac(2 * Abs(intervals[k].n - intervals[k + 1].n),
                      intervals[k].n + intervals[k + 1].n))

\* The sum divided by the number of intervals instead of the number of
\* pairs.
PviOverIntervals(pvi_sum, pairs) == Frac(100 * pvi_sum.num, (pairs + 1) * pvi_sum.den)

\* (pvi_sum / pairs) * 100
PviOf(pvi_sum, pairs) == Frac(100 * pvi_sum.num, pairs * pvi_sum.den)

\* pvi = (pvi_sum / (len(intervals) - 1)) * 100 if len(intervals) > 1 else 0
Pvi(intervals) ==
    IF Len(intervals) > 1
    THEN PviOf(PviSum(intervals, Len(intervals) - 1), Len(intervals) - 1)
    ELSE [num |-> 0, den |-> 1]

\* The four-segment score of analyze_rhythm on pvi = num / den.
RhythmScore(pvi, cfg) ==
    LET raw == IF pvi.num >= cfg.english_native * pvi.den THEN 10
               ELSE IF pvi.num >= cfg.english_target * pvi.den
                    THEN 7 + Trunc((pvi.num - cfg.english_target * pvi.den) * 3,
                                   (cfg.english_native - cfg.english_target) * pvi.den)
               ELSE IF pvi.num >= cfg.spanish_typical * pvi.den
                    THEN 4 + Trunc((pvi.num - cfg.spanish_typical * pvi.den) * 3,
                                   (cfg.english_target - cfg.spanish_typical) * pvi.den)
               ELSE Max2(1, Trunc(pvi.num * 4, cfg.spanish_typical * pvi.den))
    IN  Min2(10, Max2(1, raw))

RhythmFeedback(pvi, cfg) ==
    IF pvi.num < cfg.spanish_typical * pvi.den THEN "Very syllable-timed"
    ELSE IF pvi.num < cfg.english_target * pvi.den THEN "Spanish rhythm pattern"
    ELSE IF pvi.num < cfg.english_native * pvi.den THEN "Approaching English rhythm"
    ELSE "Native-like rhythm"

\* The RhythmAnalysis with the classification made against spanish_typical.
RhythmReportAgainstTypical(pvi, cfg) ==
    [kind |-> "report",
     score |-> RhythmScore(pvi, cfg),
     pvi |-> RoundHalfEven(10 * pvi.num, pvi.den),
     is_syllable_timed |-> pvi.num < cfg.spanish_typical * pvi.den,
     feedback |-> <<RhythmFeedback(pvi, cfg), RoundHalfEven(pvi.num, pvi.den)>>]

\* The RhythmAnalysis with the classification made by pvi <= english_target.
RhythmReportInclusive(pvi, cfg) ==
    [kind |-> "report",
     score |-> RhythmScore(pvi, cfg),
     pvi |-> RoundHalfEven(10 * pvi.num, pvi.den),
     is_syllable_timed |-> pvi.num <= cfg.english_target * pvi.den,
     feedback |-> <<RhythmFeedback(pvi, cfg), RoundHalfEven(pvi.num, pvi.den)>>]

\* The RhythmAnalysis of pvi; the pvi of the report is in tenths.
RhythmReport(pvi, cfg) ==
    [kind |-> "report",
     score |-> RhythmScore(pvi, cfg),
     pvi |-> RoundHalfEven(10 * pvi.num, pvi.den),
     is_syllable_timed |-> pvi.num < cfg.english_target * pvi.den,
     feedback |-> <<RhythmFeedback(pvi, cfg), RoundHalfEven(pvi.num, pvi.den)>>]

\* The statements of analyze_rhythm after the interval filter.
RhythmOfIntervals(intervals, cfg) ==
    IF Len(intervals) < 2 THEN RhythmNeutralReport("Could not calculate rhythm")
    ELSE RhythmReport(Pvi(intervals), cfg)

\* The statements of analyze_rhythm after find_peaks.
RhythmOfPeaks(times, peaks, cfg) ==
    IF Len(peaks) < 3 THEN RhythmNeutralReport("Not enough syllables detected")
    ELSE RhythmOfIntervals(RhythmIntervals(times, peaks), cfg)

\* The statements of analyze_rhythm after the resampling loop.
RhythmOf(rs, cfg) ==
    IF RhythmTooShort(rs.intensity_values) THEN RhythmTooShortReport
    ELSE IF Len(rs.intensity_values) = 0
    THEN Raised("np.percentile of an empty array")
    ELSE RhythmOfPeaks(rs.times, FindPeaksRhythm(rs.intensity_values), cfg)

analyze_rhythm(intensity, cfg) == RhythmOf(Resample(intensity), cfg)

\* ------------------------------------------------------------------------
\* analyze_pauses
\* ------------------------------------------------------------------------

\* len(intensity_values) < 10: too short for pause analysis.
PauseTooShort(intensity_values) == Len(intensity_values) < 10

\* One turn of the scan that leaves in_pause set when the run ends.
PauseStepStillOpen(st, t, val, threshold100, min_pause) ==
    IF 100 * val < threshold100
    THEN IF ~st.in_pause
         THEN [st EXCEPT !.in_pause = TRUE, !.pause_start = t]
         ELSE st
    ELSE IF st.in_pause
         THEN [st EXCEPT !.pauses = IF FlLe(min_pause, TimeSub(t, st.pause_start))
                                    THEN Append(st.pauses, [start |-> st.pause_start, end |-> t])
                                    ELSE st.pauses]
         ELSE st

\* One turn of the scan over (t, val): st is (in_pause, pause_start, pauses).
PauseStep(st, t, val, threshold100, min_pause) ==
    IF 100 * val < threshold100
    THEN IF ~st.in_pause
         THEN [st EXCEPT !.in_pause = TRUE, !.pause_start = t]
         ELSE st
    ELSE IF st.in_pause
         THEN [st EXCEPT !.in_pause = FALSE,
                         !.pauses = IF FlLe(min_pause, TimeSub(t, st.pause_start))
                                    THEN Append(st.pauses, [start |-> st.pause_start, end |-> t])
                                    ELSE st.pauses]
         ELSE st

\* The turns lo..hi of the scan, in order (split in halves to keep the
\* evaluation shallow).
RECURSIVE PauseScan(_, _, _, _, _, _, _)
PauseScan(st, times, vals, lo, hi, threshold100, min_pause) ==
    IF lo > hi THEN st
    ELSE IF lo = hi THEN PauseStep(st, times[lo], vals[lo], threshold100, min_pause)
    ELSE LET half == PauseScan(st, times, vals, lo, (lo + hi) \div 2, threshold100, min_pause)
         IN  IF half.in_pause \in BOOLEAN
             THEN PauseScan(half, times, vals, (lo + hi) \div 2 + 1, hi,
                            threshold100, min_pause)
             ELSE half

\* The open pause measured to the tick after the last sample, as an
\* interior run is measured to the sample that ends it.
ClosePauseAfterLast(st, last, min_pause) ==
    IF st.in_pause /\ FlLe(min_pause, TimeSub(TimeAdd(last, TimeOf(1)), st.pause_start))
    THEN Append(st.pauses, [start |-> st.pause_start, end |-> last])
    ELSE st.pauses

\* "Handle pause at end": the pause still open after the scan counts if it
\* lasted min_pause up to the last sample.
ClosePause(st, last, min_pause) ==
    IF st.in_pause /\ FlLe(min_pause, TimeSub(last, st.pause_start))
    THEN Append(st.pauses, [start |-> st.pause_start, end |-> last])
    ELSE st.pauses

\* The pauses of the whole scan.
DetectPauses(times, vals, threshold100, min_pause) ==
    ClosePause(PauseScan([in_pause |-> FALSE, pause_start |-> TimeOf(0), pauses |-> << >>],
                         times, vals, 1, Len(vals), threshold100, min_pause),
               times[Len(times)], min_pause)

\* sum(p[1] - p[0] for p in pauses), in hundredths of a second.
TotalPause(pauses) ==
    SumSeq([i \in 1..Len(pauses) |-> TimeSub(pauses[i].end, pauses[i].start).n], Len(pauses))

\* pauses_per_30s = (pause_count / duration) * 30, 0 for a zero duration.
PausesPer30s(pause_count, duration_cs) ==
    IF duration_cs > 0 THEN Frac(pause_count * 3000, duration_cs)
    ELSE [num |-> 0, den |-> 1]

\* The score before the penalty with the third segment measured from a
\* rate of 0 instead of 1.
PauseRateScoreFromZero(rate, cfg) ==
    IF rate.num >= cfg.excellent_pause_rate * rate.den THEN 10
    ELSE IF rate.num >= cfg.good_pause_rate * rate.den
    THEN 7 + Trunc((rate.num - cfg.good_pause_rate * rate.den) * 3,
                   (cfg.excellent_pause_rate - cfg.good_pause_rate) * rate.den)
    ELSE IF rate.num >= rate.den
    THEN 3 + Trunc(rate.num * 4, (cfg.good_pause_rate - 1) * rate.den)
    ELSE Max2(1, Trunc(rate.num * 3, rate.den))

\* The score before the penalty without the branch pauses_per_30s >= 1:
\* three segments, with breakpoints at the two rates of PAUSE_CONFIG only.
PauseRateScoreThreeSegments(rate, cfg) ==
    IF rate.num >= cfg.excellent_pause_rate * rate.den THEN 10
    ELSE IF rate.num >= cfg.good_pause_rate * rate.den
    THEN 7 + Trunc((rate.num - cfg.good_pause_rate * rate.den) * 3,
                   (cfg.excellent_pause_rate - cfg.good_pause_rate) * rate.den)
    ELSE Max2(1, Trunc(rate.num * 3, rate.den))

\* The score of analyze_pauses before the penalty for long pauses.
PauseRateScore(rate, cfg) ==
    IF rate.num >= cfg.excellent_pause_rate * rate.den THEN 10
    ELSE IF rate.num >= cfg.good_pause_rate * rate.den
    THEN 7 + Trunc((rate.num - cfg.good_pause_rate * rate.den) * 3,
                   (cfg.excellent_pause_rate - cfg.good_pause_rate) * rate.den)
    ELSE IF rate.num >= rate.den
    THEN 3 + Trunc((rate.num - rate.den) * 4, (cfg.good_pause_rate - 1) * rate.den)
    ELSE Max2(1, Trunc(rate.num * 3, rate.den))

\* avg_pause_duration > max_pause_duration (durations in hundredths).
PausesTooLong(total_cs, pause_count, cfg) ==
    pause_count > 0 /\ total_cs > cfg.max_pause_duration * pause_count

\* if avg_pause_duration > max_pause_duration: score = max(1, score - 2)
Penalized(score, too_long) == IF too_long THEN Max2(1, score - 2) ELSE score

PauseScore(rate, total_cs, pause_count, cfg) ==
    Min2(10, Max2(1, Penalized(PauseRateScore(rate, cfg),
                               PausesTooLong(total_cs, pause_count, cfg))))

PauseFeedback(rate, total_cs, pause_count, cfg) ==
    IF pause_count = 0 THEN "No pauses detected"
    ELSE IF rate.num < cfg.good_pause_rate * rate.den THEN "Add more pauses"
    ELSE IF PausesTooLong(total_cs, pause_count, cfg) THEN "Pauses too long"
    ELSE IF rate.num >= cfg.excellent_pause_rate * rate.den THEN "Excellent pause usage"
    ELSE "Good pause pattern"

\* The report for too few samples.
PauseTooShortReport ==
    [kind |-> "report", score |-> 5, pause_count |-> 0,
     total_pause_duration |-> 0, avg_pause_duration |-> 0, pause_ratio |-> 0,
     pauses |-> << >>, feedback |-> <<"Audio too short for pause analysis", 0>>]

\* The PauseAnalysis: total and avg in hundredths of a second, pause_ratio
\* in thousandths.
PauseReport(pauses, pause_count, total_cs, rate, duration_cs, cfg) ==
    [kind |-> "report",
     score |-> PauseScore(rate, total_cs, pause_count, cfg),
     pause_count |-> pause_count,
     total_pause_duration |-> total_cs,
     avg_pause_duration |->
         IF pause_count > 0 THEN RoundHalfEven(total_cs, pause_count) ELSE 0,
     pause_ratio |->
         IF duration_cs > 0 THEN RoundHalfEven(1000 * total_cs, duration_cs) ELSE 0,
     pauses |-> pauses,
     feedback |-> <<PauseFeedback(rate, total_cs, pause_count, cfg), pause_count>>]

\* The statements of analyze_pauses after the scan.
PausesOfScan(pauses, duration_cs, cfg) ==
    PauseReport(pauses, Len(pauses), TotalPause(pauses),
                PausesPer30s(Len(pauses), duration_cs), duration_cs, cfg)

\* The statements of analyze_pauses after the resampling loop.
PausesOf(rs, duration_cs, cfg) ==
    IF PauseTooShort(rs.intensity_values) THEN PauseTooShortReport
    ELSE IF Len(rs.intensity_values) = 0
    THEN Raised("np.percentile of an empty array")
    ELSE PausesOfScan(DetectPauses(rs.times, rs.intensity_values,
                                   Percentile100(rs.intensity_values, 25),
                                   TimeOf(cfg.min_pause_duration)),
                      duration_cs, cfg)

\* analyze_pauses on the contour and the duration of the sound (a double,
\* in hundredths of a second).
analyze_pauses(intensity, duration, cfg) == PausesOf(Resample(intensity), duration.n, cfg)

\* ------------------------------------------------------------------------
\* Sounds: the frequency array of "To Pitch" and the contour of
\* "To Intensity" of one recording
\* ------------------------------------------------------------------------

MaxPeaks == 4
MaxShort == 21
MaxRange == 160
MaxCalls == 2
MaxMetric == 1200

\* Intensity levels in dB: silence, the floor of speech, weak and strong
\* syllable nuclei.
Level(what) ==
    CASE what = "silence" -> 30
      [] what = "floor"   -> 50
      [] what = "weak"    -> 60
      [] what = "strong"  -> 70

\* The sample index of the k-th nucleus when the gaps alternate between
\* gaps[1] and gaps[2] samples.
NucleusAt(k, gaps) == 5 + ((k - 1) \div 2) * (gaps[1] + gaps[2]) + ((k - 1) % 2) * gaps[1]

\* A stretch of speech: n nuclei, each width samples wide, on the floor.
SpeechBody(n, gaps, width) ==
    LET len == IF n = 0 THEN 12 ELSE NucleusAt(n, gaps) + width + 5
    IN  [j \in 1..len |->
            IF \E k \in 1..n : j - 1 \in NucleusAt(k, gaps)..(NucleusAt(k, gaps) + width - 1)
            THEN IF (CHOOSE k \in 1..n :
                        j - 1 \in NucleusAt(k, gaps)..(NucleusAt(k, gaps) + width - 1)) % 2 = 1
                 THEN Level("strong") ELSE Level("weak")
            ELSE Level("floor")]

\* What follows the speech: nothing, a silence of len samples closed by
\* speech, two of them, or a silence of len samples that lasts to the end.
Ending(kind, len) ==
    LET silence == [j \in 1..len |-> Level("silence")]
        resume == [j \in 1..4 |-> Level("floor")]
    IN  CASE kind = "none"   -> << >>
          [] kind = "closed" -> silence \o resume
          [] kind = "twice"  -> silence \o resume \o silence \o resume
          [] kind = "open"   -> silence

\* The recording with the given samples after lead ticks without a value;
\* the contour's domain is that of the sound and ends two ticks after the
\* last frame.  One pitch frame per nucleus, unvoiced frames around them.
SoundOf(lead, body, n) ==
    LET values == [j \in 1..lead |-> NaN] \o body
        end_cs == IF Len(values) = 0 THEN 0 ELSE Len(values) + 1
    IN  [f0 |-> <<0>> \o [k \in 1..n |-> 120 + 25 * (k - 1)] \o <<0>>,
         intensity |-> [start_time |-> TimeOf(0), end_time |-> TimeOf(end_cs),
                        time_step |-> 1, values |-> values],
         duration |-> TimeOf(end_cs)]

GapPairs ==
    {<<30, 30>>, <<15, 45>>, <<10, 10>>, <<30, 50>>, <<29, 51>>, <<100, 100>>, <<190, 10>>}

Endings ==
    {<<"none", 0>>, <<"closed", 19>>, <<"closed", 20>>, <<"closed", 21>>,
     <<"twice", 21>>, <<"open", 20>>, <<"open", 21>>}

\* Recordings of speech.
SpeechSounds ==
    {SoundOf(lead, SpeechBody(n, gaps, width) \o Ending(tail[1], tail[2]), n) :
        lead \in {2}, n \in 0..MaxPeaks, gaps \in GapPairs, width \in {1, 3}, tail \in Endings}

\* The samples of a short clip: flat, with one nucleus, or rising by 2 dB
\* a sample.
ShortBody(len, content) ==
    [j \in 1..len |->
        CASE content = "flat"    -> Level("floor")
          [] content = "nucleus" -> IF j = 3 THEN Level("strong") ELSE Level("floor")
          [] content = "rising"  -> Level("silence") + 2 * j]

\* Clips of at most MaxShort samples, down to the empty recording.
ShortSounds ==
    {SoundOf(0, ShortBody(len, content), 0) :
        len \in 0..MaxShort, content \in {"flat", "nucleus", "rising"}}

\* A contour whose time range is reversed (end_time before start_time).
Reversed(snd, start_cs) ==
    [snd EXCEPT !.intensity.start_time = TimeOf(snd.intensity.end_time.n + start_cs)]

ReversedSounds ==
    {Reversed(SoundOf(0, ShortBody(len, content), 0), start_cs) :
        len \in {5, 15, MaxShort}, content \in {"flat", "nucleus"}, start_cs \in {1, 100}}

\* The time range of the contour is in order.
ValidRange(intensity) == FlLe(intensity.start_time, intensity.end_time)

\* Recordings that differ in their pitch only: unvoiced frames around at
\* most three voiced frames spanning range Hz.
PitchSounds ==
    {[SoundOf(0, << >>, 0) EXCEPT !.f0 = [j \in 1..unvoiced |-> 0] \o voiced] :
        unvoiced \in 0..1,
        voiced \in {<< >>} \cup
                   UNION {{<<low + range>>, <<low, low + range>>,
                           <<low + range, 0, low, low + (range \div 2)>>} :
                          low \in {75, 120}, range \in 0..MaxRange}}

\* ------------------------------------------------------------------------
\* analyze_prosody as a state machine
\* ------------------------------------------------------------------------

VARIABLES
    sound,          \* the recording under analysis
    config,         \* the module-level dictionaries of config.py
    pc,             \* the statement analyze_prosody is about to run
    pitch_result, volume_result, tempo_result, rhythm_result, pause_result,
    analysis,       \* what analyze_prosody returned
    calls,          \* calls of analyze_prosody that have returned
    first,          \* what the first call returned
    sound_tracking, \* the rows of table sound_tracking
    word_tracking,  \* the rows of table word_tracking
    rhythm_progress,\* the rows of table rhythm_progress (at most one)
    called,         \* the last call of a function of storage.py and its result
    level,          \* the level of the running training session, 0 without one
    reports,        \* what the calls of update_rhythm_progress returned, in order
    audio_streamer, \* the fields of the AsyncAudioStreamer
    session         \* the fields and the tasks of the RealtimeRhythmSession

\* The tables of storage.py and the training session on them.
storage == <<sound_tracking, word_tracking, rhythm_progress, called, level, reports>>

\* The objects of one real-time drill.
realtime == <<audio_streamer, session>>

\* What analyze_prosody works on.
prosody == <<sound, config, pc, pitch_result, volume_result, tempo_result,
             rhythm_result, pause_result, analysis, calls, first>>

vars == <<prosody, storage, realtime>>

None == [kind |-> "none"]

\* An empty database, with no training session.
EmptyDb ==
    /\ sound_tracking = {} /\ word_tracking = {} /\ rhythm_progress = {}
    /\ called = [op |-> "none", key |-> "", arg |-> "", n |-> 0]
    /\ level = 0
    /\ reports = << >>

\* AsyncAudioStreamer.__init__ and RealtimeRhythmSession.__init__: no queue,
\* no stream, no task.
Constructed ==
    /\ audio_streamer = [running |-> FALSE, stream |-> "none", queue |-> << >>]
    /\ session = [state |-> "IDLE", stop_requested |-> FALSE, run_drill |-> "idle",
                  send_task |-> "none", receive_task |-> "none",
                  timeout |-> "none", returned |-> None]

\* The state as a call of analyze_prosody on snd begins.
Entered(snd) ==
    /\ sound = snd
    /\ config = ModuleConfig
    /\ pc = "pitch"
    /\ pitch_result = None /\ volume_result = None /\ tempo_result = None
    /\ rhythm_result = None /\ pause_result = None
    /\ analysis = None
    /\ calls = 0
    /\ first = None
    /\ EmptyDb /\ Constructed

Init == \E snd \in SpeechSounds \cup ShortSounds : Entered(snd)

\* Where analyze_prosody goes on after an analyzer returned result: an
\* exception leaves analyze_prosody at once, with no analysis.
After(result, next) == IF result.kind = "error" THEN "raised" ELSE next

\* pitch_result = analyze_pitch(sound)
AnalyzePitch ==
    /\ pc = "pitch"
    /\ pitch_result' = analyze_pitch(sound.f0, config.pitch)
    /\ pc' = After(pitch_result', "volume")
    /\ UNCHANGED <<storage, realtime, sound, config, volume_result, tempo_result, rhythm_result,
                   pause_result, analysis, calls, first>>

\* volume_result = analyze_volume(sound)
AnalyzeVolume ==
    /\ pc = "volume"
    /\ volume_result' = analyze_volume(sound.intensity, config.volume)
    /\ pc' = After(volume_result', "tempo")
    /\ UNCHANGED <<storage, realtime, sound, config, pitch_result, tempo_result, rhythm_result,
                   pause_result, analysis, calls, first>>

\* tempo_result = analyze_tempo(sound)
AnalyzeTempo ==
    /\ pc = "tempo"
    /\ tempo_result' = analyze_tempo(sound.intensity, config.tempo)
    /\ pc' = After(tempo_result', "rhythm")
    /\ UNCHANGED <<storage, realtime, sound, config, pitch_result, volume_result, rhythm_result,
                   pause_result, analysis, calls, first>>

\* An analyze_rhythm that keeps state: each call raises the target it will
\* compare the next nPVI with.
AnalyzeRhythmAdaptive ==
    /\ pc = "rhythm"
    /\ rhythm_result' = analyze_rhythm(sound.intensity, config.rhythm)
    /\ config' = [config EXCEPT !.rhythm.english_target = @ + 10]
    /\ pc' = After(rhythm_result', "pauses")
    /\ UNCHANGED <<storage, realtime, sound, pitch_result, volume_result, tempo_result,
                   pause_result, analysis, calls, first>>

\* rhythm_result = analyze_rhythm(sound)
AnalyzeRhythm ==
    /\ pc = "rhythm"
    /\ rhythm_result' = analyze_rhythm(sound.intensity, config.rhythm)
    /\ pc' = After(rhythm_result', "pauses")
    /\ UNCHANGED <<storage, realtime, sound, config, pitch_result, volume_result, tempo_result,
                   pause_result, analysis, calls, first>>

\* pause_result = analyze_pauses(sound)
AnalyzePauses ==
    /\ pc = "pauses"
    /\ pause_result' = analyze_pauses(sound.intensity, sound.duration, config.pause)
    /\ pc' = After(pause_result', "overall")
    /\ UNCHANGED <<storage, realtime, sound, config, pitch_result, volume_result, tempo_result,
                   rhythm_result, analysis, calls, first>>

\* The weighted average and the ProsodyAnalysis returned; overall_score in
\* tenths.
Aggregate ==
    /\ pc = "overall"
    /\ analysis' = [kind |-> "report",
                    pitch |-> pitch_result, volume |-> volume_result,
                    tempo |-> tempo_result, rhythm |-> rhythm_result,
                    pauses |-> pause_result,
                    duration |-> sound.duration,
                    overall_score |-> OverallScore(pitch_result.score, volume_result.score,
                                                   tempo_result.score, rhythm_result.score,
                                                   pause_result.score)]
    /\ pc' = "done"
    /\ calls' = calls + 1
    /\ first' = IF calls = 0 THEN analysis' ELSE first
    /\ UNCHANGED <<storage, realtime, sound, config, pitch_result, volume_result, tempo_result,
                   rhythm_result, pause_result>>

\* The caller analyses the same recording once more.
CallAgain ==
    /\ pc = "done"
    /\ calls < MaxCalls
    /\ pc' = "pitch"
    /\ pitch_result' = None /\ volume_result' = None /\ tempo_result' = None
    /\ rhythm_result' = None /\ pause_result' = None
    /\ analysis' = None
    /\ UNCHANGED <<storage, realtime, sound, config, calls, first>>

Next ==
    \/ AnalyzePitch
    \/ AnalyzeVolume
    \/ AnalyzeTempo
    \/ AnalyzeRhythm
    \/ AnalyzePauses
    \/ Aggregate
    \/ CallAgain

Spec == Init /\ [][Next]_vars

\* analyze_prosody on recordings that differ in their pitch only.
InitPitch == \E snd \in PitchSounds : Entered(snd)

SpecPitch == InitPitch /\ [][Next]_vars

\* analyze_prosody on contours whose time range is reversed.
InitMalformed == \E snd \in ReversedSounds : Entered(snd)

SpecMalformed == InitMalformed /\ [][Next]_vars

\* The weighted average as a function of the five scores: the state before
\* the sum of analyze_prosody, for every five scores in 1..10.
Scored(score) == [kind |-> "report", score |-> score]

InitAggregate ==
    /\ sound = SoundOf(0, << >>, 0)
    /\ config = ModuleConfig
    /\ pc = "overall"
    /\ \E p, v, t, r, pa \in 1..10 :
          /\ pitch_result = Scored(p) /\ volume_result = Scored(v)
          /\ tempo_result = Scored(t) /\ rhythm_result = Scored(r)
          /\ pause_result = Scored(pa)
    /\ analysis = None
    /\ calls = 0
    /\ first = None
    /\ EmptyDb /\ Constructed

NextAggregate == Aggregate

SpecAggregate == InitAggregate /\ [][NextAggregate]_vars

\* ------------------------------------------------------------------------
\* The five analyzers of one call on parallel threads
\* ------------------------------------------------------------------------

\* Recordings for the parallel call.
ParallelSounds ==
    {SoundOf(2, SpeechBody(n, gaps, width) \o Ending(tail[1], tail[2]), n) :
        n \in {0, 2, MaxPeaks}, gaps \in {<<30, 30>>, <<15, 45>>}, width \in {1, 3},
        tail \in {<<"none", 0>>, <<"closed", 21>>}}
    \cup {SoundOf(0, ShortBody(len, "nucleus"), 0) : len \in {0, 9, MaxShort}}

\* After a first call that ran the analyzers in order, a second call on the
\* same recording starts the five analyzers together.
Fork ==
    /\ pc = "done"
    /\ calls = 1
    /\ pc' = "parallel"
    /\ pitch_result' = None /\ volume_result' = None /\ tempo_result' = None
    /\ rhythm_result' = None /\ pause_result' = None
    /\ analysis' = None
    /\ UNCHANGED <<storage, realtime, sound, config, calls, first>>

\* One thread per analyzer: it reads the recording and its own dictionary
\* of the configuration and writes its own result.
RunPitch ==
    /\ pc = "parallel"
    /\ pitch_result = None
    /\ pitch_result' = analyze_pitch(sound.f0, config.pitch)
    /\ pc' = After(pitch_result', "parallel")
    /\ UNCHANGED <<storage, realtime, sound, config, volume_result, tempo_result, rhythm_result,
                   pause_result, analysis, calls, first>>

RunVolume ==
    /\ pc = "parallel"
    /\ volume_result = None
    /\ volume_result' = analyze_volume(sound.intensity, config.volume)
    /\ pc' = After(volume_result', "parallel")
    /\ UNCHANGED <<storage, realtime, sound, config, pitch_result, tempo_result, rhythm_result,
                   pause_result, analysis, calls, first>>

\* A tempo thread that leaves a value in the shared configuration: it sets
\* the target the rhythm thread compares the nPVI with.
RunTempoTuning ==
    /\ pc = "parallel"
    /\ tempo_result = None
    /\ tempo_result' = analyze_tempo(sound.intensity, config.tempo)
    /\ config' = [config EXCEPT !.rhythm.english_target = config.rhythm.english_native]
    /\ pc' = After(tempo_result', "parallel")
    /\ UNCHANGED <<storage, realtime, sound, pitch_result, volume_result, rhythm_result,
                   pause_result, analysis, calls, first>>

RunTempo ==
    /\ pc = "parallel"
    /\ tempo_result = None
    /\ tempo_result' = analyze_tempo(sound.intensity, config.tempo)
    /\ pc' = After(tempo_result', "parallel")
    /\ UNCHANGED <<storage, realtime, sound, config, pitch_result, volume_result, rhythm_result,
                   pause_result, analysis, calls, first>>

RunRhythm ==
    /\ pc = "parallel"
    /\ rhythm_result = None
    /\ rhythm_result' = analyze_rhythm(sound.intensity, config.rhythm)
    /\ pc' = After(rhythm_result', "parallel")
    /\ UNCHANGED <<storage, realtime, sound, config, pitch_result, volume_result, tempo_result,
                   pause_result, analysis, calls, first>>

RunPauses ==
    /\ pc = "parallel"
    /\ pause_result = None
    /\ pause_result' = analyze_pauses(sound.intensity, sound.duration, config.pause)
    /\ pc' = After(pause_result', "parallel")
    /\ UNCHANGED <<storage, realtime, sound, config, pitch_result, volume_result, tempo_result,
                   rhythm_result, analysis, calls, first>>

\* All five threads have returned: the call goes on to the weighted average.
Join ==
    /\ pc = "parallel"
    /\ pitch_result # None /\ volume_result # None /\ tempo_result # None
    /\ rhythm_result # None /\ pause_result # None
    /\ pc' = "overall"
    /\ UNCHANGED <<storage, realtime, sound, config, pitch_result, volume_result, tempo_result,
                   rhythm_result, pause_result, analysis, calls, first>>

InitParallel == \E snd \in ParallelSounds : Entered(snd)

NextParallel ==
    \/ AnalyzePitch
    \/ AnalyzeVolume
    \/ AnalyzeTempo
    \/ AnalyzeRhythm
    \/ AnalyzePauses
    \/ Aggregate
    \/ Fork
    \/ RunPitch
    \/ RunVolume
    \/ RunTempo
    \/ RunRhythm
    \/ RunPauses
    \/ Join

SpecParallel == InitParallel /\ [][NextParallel]_vars

\* ------------------------------------------------------------------------
\* The scoring statements of analyze_pitch, analyze_volume, analyze_rhythm
\* and analyze_tempo
\* ------------------------------------------------------------------------

\* An analyzer about to score the metric it has computed.
Measured(metric) == [kind |-> "measured", metric |-> metric]

\* The analyzers before their scoring statements, for every metric value x
\* up to MaxMetric: a pitch range of x Hz, a stress contrast of x / 100 dB,
\* an nPVI of x / 10, an estimated WPM of x / 4 with a variation of v
\* percent, and x / 128 pauses per 30 seconds (none, or one pause of 2.00 s
\* or of 2.01 s).
InitScoring ==
    /\ sound = SoundOf(0, << >>, 0)
    /\ config = ModuleConfig
    /\ pc = "score_pitch"
    /\ \E x \in 0..MaxMetric :
          /\ pitch_result = Measured(x)
          /\ volume_result = Measured(x)
          /\ rhythm_result = Measured(x)
          /\ \E v \in {0, 4, 5, 14, 15, 24, 25, 100} :
                tempo_result = Measured([wpm |-> Frac(x, 4),
                                         var |-> [v2 |-> v * v, s |-> 100]])
          /\ \E long \in (IF x = 0 THEN {0} ELSE {200, 201}) :
                pause_result = Measured([rate |-> Frac(x, 128),
                                         pause_count |-> IF x = 0 THEN 0 ELSE 1,
                                         total_cs |-> long])
    /\ analysis = None
    /\ calls = 0
    /\ first = None
    /\ EmptyDb /\ Constructed

\* analyze_pitch: the score of range_hz.
ScorePitch ==
    /\ pc = "score_pitch"
    /\ pitch_result' = [kind |-> "report", metric |-> pitch_result.metric,
                        score |-> PitchScore(pitch_result.metric, config.pitch)]
    /\ pc' = "score_volume"
    /\ UNCHANGED <<storage, realtime, sound, config, volume_result, tempo_result, rhythm_result,
                   pause_result, analysis, calls, first>>

\* analyze_volume: the score of stress_contrast_db.
ScoreVolume ==
    /\ pc = "score_volume"
    /\ volume_result' = [kind |-> "report", metric |-> volume_result.metric,
                         score |-> VolumeScore(volume_result.metric, config.volume)]
    /\ pc' = "score_rhythm"
    /\ UNCHANGED <<storage, realtime, sound, config, pitch_result, tempo_result, rhythm_result,
                   pause_result, analysis, calls, first>>

\* analyze_rhythm: the classification and the score of pvi.
ScoreRhythm ==
    /\ pc = "score_rhythm"
    /\ rhythm_result' =
          [kind |-> "report", metric |-> rhythm_result.metric,
           score |-> RhythmScore(Frac(rhythm_result.metric, 10), config.rhythm),
           is_syllable_timed |->
               RhythmReport(Frac(rhythm_result.metric, 10), config.rhythm).is_syllable_timed]
    /\ pc' = "score_tempo"
    /\ UNCHANGED <<storage, realtime, sound, config, pitch_result, volume_result, tempo_result,
                   pause_result, analysis, calls, first>>

\* analyze_tempo: wpm_score, variation_score and the score of
\* estimated_wpm and variation_percent.
ScoreTempo ==
    /\ pc = "score_tempo"
    /\ tempo_result' =
          [kind |-> "report", metric |-> tempo_result.metric,
           wpm_score |-> WpmScore(tempo_result.metric.wpm, config.tempo),
           variation_score |-> VariationScore(tempo_result.metric.var, config.tempo),
           score |-> TempoScore(tempo_result.metric.wpm, tempo_result.metric.var,
                                config.tempo)]
    /\ pc' = "score_pauses"
    /\ UNCHANGED <<storage, realtime, sound, config, pitch_result, volume_result, rhythm_result,
                   pause_result, analysis, calls, first>>

\* analyze_pauses: the score of pauses_per_30s and avg_pause_duration.
ScorePauses ==
    /\ pc = "score_pauses"
    /\ pause_result' =
          [kind |-> "report", metric |-> pause_result.metric,
           score |-> PauseScore(pause_result.metric.rate, pause_result.metric.total_cs,
                                pause_result.metric.pause_count, config.pause)]
    /\ pc' = "scored"
    /\ UNCHANGED <<storage, realtime, sound, config, pitch_result, volume_result, tempo_result,
                   rhythm_result, analysis, calls, first>>

NextScoring == ScorePitch \/ ScoreVolume \/ ScoreRhythm \/ ScoreTempo \/ ScorePauses

SpecScoring == InitScoring /\ [][NextScoring]_vars

\* The steps by which the metrics of a second recording are larger.
Steps == {1, 25, 400}

\* The pauses of a recording with more pauses per 30 seconds and the same
\* mean pause: mean pauses of 2.00 s when the first recording had none.
MorePauses(metric, step) ==
    [rate |-> Frac(Trunc(128 * metric.rate.num, metric.rate.den) + step, 128),
     pause_count |-> 1,
     total_cs |-> IF metric.pause_count = 0 THEN 200 ELSE metric.total_cs]

\* The analyzers are called on a second recording whose metrics are all
\* larger by step; first keeps the results for the first recording.
Remeasure ==
    /\ pc = "scored"
    /\ first = None
    /\ \E step \in Steps :
          /\ pitch_result.metric + step <= MaxMetric
          /\ pitch_result' = Measured(pitch_result.metric + step)
          /\ volume_result' = Measured(volume_result.metric + step)
          /\ rhythm_result' = Measured(rhythm_result.metric + step)
          /\ tempo_result' =
                Measured([tempo_result.metric EXCEPT
                             !.wpm = Frac(Trunc(4 * @.num, @.den) + step, 4)])
          /\ pause_result' = Measured(MorePauses(pause_result.metric, step))
    /\ first' = [kind |-> "scores", pitch |-> pitch_result, volume |-> volume_result,
                 rhythm |-> rhythm_result, pause |-> pause_result]
    /\ pc' = "score_pitch"
    /\ UNCHANGED <<storage, realtime, sound, config, analysis, calls>>

NextMonotone == NextScoring \/ Remeasure

SpecMonotone == InitScoring /\ [][NextMonotone]_vars

\* ------------------------------------------------------------------------
\* storage.py: spaced repetition of sounds and words
\* ------------------------------------------------------------------------

\* The calls of storage.py followed.
MaxStorageCalls == 8

\* str.lower() on the texts used here.
Lower(text) ==
    CASE text = "TH" -> "th"
      [] text = "Strength" -> "strength"
      [] OTHER -> text

\* Sounds as the callers pass them: a text, with or without a leading
\* bullet or number and bold markers around it.
RawSounds ==
    {[text |-> t, bullet |-> b, bold |-> d] :
        t \in {"TH", "th", "v", ""}, b \in BOOLEAN, d \in {FALSE}} \cup
    {[text |-> "TH", bullet |-> TRUE, bold |-> TRUE]}

\* normalize_sound_name: bullet, number and bold markers removed, lowercased
\* and stripped.
normalize_sound_name(raw) == Lower(raw.text)

\* Words as the callers pass them: a text, with or without quotes around it
\* and an IPA transcription after it.
RawWords ==
    {[text |-> t, quoted |-> q, ipa |-> i] :
        t \in {"Strength", "strength", "a"}, q \in BOOLEAN, i \in {FALSE}} \cup
    {[text |-> "strength", quoted |-> FALSE, ipa |-> TRUE]}

\* The key track_word stores: lowercased, the IPA and the quotes removed.
TrackedWord(raw) == [text |-> Lower(raw.text), quoted |-> FALSE, ipa |-> FALSE]

\* The key update_word_after_practice looks up: word.strip().lower().
CleanWord(raw) == [raw EXCEPT !.text = Lower(raw.text)]

\* The row INSERTed for a new key: the defaults of the schema, next_review
\* tomorrow (days from today).
NewRow(key) ==
    [key |-> key, times_encountered |-> 1, times_practiced |-> 0, times_correct |-> 0,
     last_practiced |-> "NULL", interval_days |-> 1, next_review |-> 1]

\* The rows of table with the given key (the key column is UNIQUE).
RowsOf(table, key) == {row \in table : row.key = key}

\* The row after a practice with the interval doubled without the maximum.
PracticedUncapped(row, was_correct) ==
    [row EXCEPT !.interval_days = IF was_correct THEN 2 * @ ELSE 1,
                !.times_correct = IF was_correct THEN @ + 1 ELSE @,
                !.times_practiced = @ + 1,
                !.next_review = IF was_correct THEN 2 * row.interval_days ELSE 1,
                !.last_practiced = "today"]

\* The UPDATE of update_sound_after_practice and update_word_after_practice:
\* new_interval = min(current_interval * 2, 30.0) when correct, else 1.0.
Practiced(row, was_correct) ==
    [row EXCEPT !.interval_days = IF was_correct THEN Min2(2 * @, 30) ELSE 1,
                !.times_correct = IF was_correct THEN @ + 1 ELSE @,
                !.times_practiced = @ + 1,
                !.next_review = IF was_correct THEN Min2(2 * row.interval_days, 30) ELSE 1,
                !.last_practiced = "today"]

\* The table after the SELECT and the UPDATE or INSERT of track_sound and
\* track_word.
Encountered(table, key) ==
    IF RowsOf(table, key) = {} THEN table \cup {NewRow(key)}
    ELSE {IF row.key = key THEN [row EXCEPT !.times_encountered = @ + 1] ELSE row :
          row \in table}

\* The table after the SELECT and the UPDATE of the practice functions: no
\* row, no change.
AfterPractice(table, key, was_correct) ==
    {IF row.key = key THEN Practiced(row, was_correct) ELSE row : row \in table}

\* A call is recorded with the function, the key it looked up, its argument
\* and the number of the call; the other tables stay as they are.
Call(op, key, arg) ==
    /\ called.n < MaxStorageCalls
    /\ called' = [op |-> op, key |-> key, arg |-> arg, n |-> called.n + 1]
    /\ UNCHANGED <<rhythm_progress, level, reports, prosody, realtime>>

track_sound(raw) ==
    /\ Call("track_sound", normalize_sound_name(raw), "")
    /\ sound_tracking' = IF normalize_sound_name(raw) = "" THEN sound_tracking
                         ELSE Encountered(sound_tracking, normalize_sound_name(raw))
    /\ UNCHANGED word_tracking

update_sound_after_practice(raw, was_correct) ==
    /\ Call("update_sound_after_practice", normalize_sound_name(raw), was_correct)
    /\ sound_tracking' = IF normalize_sound_name(raw) = "" THEN sound_tracking
                         ELSE AfterPractice(sound_tracking, normalize_sound_name(raw),
                                            was_correct)
    /\ UNCHANGED word_tracking

\* track_word returns at once for a cleaned word of fewer than 2 characters.
track_word(raw) ==
    /\ Call("track_word", TrackedWord(raw), "")
    /\ word_tracking' = IF raw.text = "a" THEN word_tracking
                        ELSE Encountered(word_tracking, TrackedWord(raw))
    /\ UNCHANGED sound_tracking

update_word_after_practice(raw, was_correct) ==
    /\ Call("update_word_after_practice", CleanWord(raw), was_correct)
    /\ word_tracking' = AfterPractice(word_tracking, CleanWord(raw), was_correct)
    /\ UNCHANGED sound_tracking

InitStorage == Entered(SoundOf(0, << >>, 0))

NextStorage ==
    \/ \E raw \in RawSounds : track_sound(raw)
    \/ \E raw \in RawSounds, was_correct \in BOOLEAN :
          update_sound_after_practice(raw, was_correct)
    \/ \E raw \in RawWords : track_word(raw)
    \/ \E raw \in RawWords, was_correct \in BOOLEAN :
          update_word_after_practice(raw, was_correct)

SpecStorage == InitStorage /\ [][NextStorage]_vars

\* ------------------------------------------------------------------------
\* storage.py: progress of the rhythm training
\* ------------------------------------------------------------------------

\* RHYTHM_LEVEL_CONFIG: the levels 1..6 and what the progress reads of them.
RHYTHM_LEVEL_CONFIG ==
    [l \in 1..6 |-> [consecutive_passes |-> 3,
                     min_rhythm_score |-> <<5, 6, 6, 7, 7, 8>>[l]]]

\* datetime.now(): later at every call that writes (0 stands for NULL, in a
\* timestamp and in a baseline).
Now == called.n + 1

\* The row INSERTed when the table is empty: level 1 unlocked.
NewProgress(now, npvi) ==
    [current_level |-> 1, npvi_baseline |-> npvi, npvi_current |-> npvi,
     consecutive_passes |-> [l \in 1..6 |-> 0],
     total_attempts |-> [l \in 1..6 |-> 0],
     unlocked_at |-> [l \in 1..6 |-> IF l = 1 THEN now ELSE 0],
     updated_at |-> now]

\* The table after get_rhythm_progress.
get_rhythm_progress(table, now) ==
    IF table = {} THEN {NewProgress(now, 0)} ELSE table

\* get_available_levels: the levels with an unlocked_at.
get_available_levels(table) ==
    {l \in 1..6 : \E row \in table : row.unlocked_at[l] # 0}

\* The level run_realtime_rhythm_training goes on with, 0 when it returns
\* before the session: a locked level above the highest unlocked one becomes
\* that one, any other level not available is invalid, and without a
\* baseline there is no training.
ValidatedLevel(table, lvl) ==
    IF \E row \in table : row.npvi_baseline = 0 THEN 0
    ELSE IF lvl \in get_available_levels(table) THEN lvl
    ELSE IF \A l \in get_available_levels(table) : lvl > l
    THEN CHOOSE m \in get_available_levels(table) :
            \A l \in get_available_levels(table) : m >= l
    ELSE 0

\* The second UPDATE of update_rhythm_progress made without looking at the
\* unlocked_at of the next level.
UnlockedAgain(row, lvl, now, level_mastered) ==
    IF level_mastered /\ lvl < 6
    THEN [row EXCEPT !.current_level = lvl + 1, !.unlocked_at[lvl + 1] = now]
    ELSE row

\* The second UPDATE of update_rhythm_progress: the next level is unlocked
\* when this one is mastered and the next has no unlocked_at yet.
Unlocked(row, lvl, now, level_mastered) ==
    IF level_mastered /\ lvl < 6 /\ row.unlocked_at[lvl + 1] = 0
    THEN [row EXCEPT !.current_level = lvl + 1, !.unlocked_at[lvl + 1] = now]
    ELSE row

\* The first UPDATE of update_rhythm_progress.
Attempted(row, lvl, new_consecutive, now) ==
    [row EXCEPT !.consecutive_passes[lvl] = new_consecutive,
                !.total_attempts[lvl] = @ + 1,
                !.npvi_current = 50,
                !.updated_at = now]

\* The consecutive passes left as they were by a failed attempt.
NewConsecutiveKept(row, lvl, passed) ==
    IF passed THEN row.consecutive_passes[lvl] + 1 ELSE row.consecutive_passes[lvl]

\* new_consecutive = current_consecutive + 1 if passed else 0
NewConsecutive(row, lvl, passed) ==
    IF passed THEN row.consecutive_passes[lvl] + 1 ELSE 0

\* The dictionary update_rhythm_progress returns.
ProgressResult(row, lvl, passed, new_consecutive) ==
    [level |-> lvl, passed |-> passed,
     consecutive_passes |-> new_consecutive,
     total_attempts |-> row.total_attempts[lvl] + 1,
     required_passes |-> RHYTHM_LEVEL_CONFIG[lvl].consecutive_passes,
     level_mastered |-> new_consecutive >= RHYTHM_LEVEL_CONFIG[lvl].consecutive_passes,
     next_level_unlocked |->
         /\ new_consecutive >= RHYTHM_LEVEL_CONFIG[lvl].consecutive_passes
         /\ lvl < 6
         /\ row.unlocked_at[lvl + 1] = 0]

\* set_rhythm_baseline(npvi)
set_rhythm_baseline(npvi) ==
    /\ level = 0
    /\ called.n < MaxStorageCalls
    /\ called' = [op |-> "set_rhythm_baseline", key |-> "", arg |-> npvi,
                  n |-> called.n + 1]
    /\ rhythm_progress' =
          IF rhythm_progress = {} THEN {NewProgress(Now, npvi)}
          ELSE {[row EXCEPT !.npvi_baseline = npvi, !.npvi_current = npvi,
                            !.updated_at = Now] : row \in rhythm_progress}
    /\ UNCHANGED <<sound_tracking, word_tracking, level, reports, prosody, realtime>>

\* run_realtime_rhythm_training(lvl) up to the creation of the session.
run_realtime_rhythm_training(lvl) ==
    /\ level = 0
    /\ rhythm_progress' = get_rhythm_progress(rhythm_progress, Now)
    /\ level' = ValidatedLevel(get_rhythm_progress(rhythm_progress, Now), lvl)
    /\ UNCHANGED <<sound_tracking, word_tracking, called, reports, prosody, realtime>>

\* update_rhythm_progress(level, 50, rhythm_score, passed) after a drill of
\* the session.
update_rhythm_progress(passed) ==
    /\ level # 0
    /\ called.n < MaxStorageCalls
    /\ called' = [op |-> "update_rhythm_progress", key |-> "", arg |-> passed,
                  n |-> called.n + 1]
    /\ rhythm_progress' =
          {Unlocked(Attempted(row, level, NewConsecutive(row, level, passed), Now),
                    level, Now,
                    NewConsecutive(row, level, passed)
                        >= RHYTHM_LEVEL_CONFIG[level].consecutive_passes) :
           row \in get_rhythm_progress(rhythm_progress, Now)}
    /\ reports' =
          Append(reports,
                 ProgressResult(CHOOSE row \in get_rhythm_progress(rhythm_progress, Now) : TRUE,
                                level, passed,
                                NewConsecutive(
                                    CHOOSE row \in get_rhythm_progress(rhythm_progress, Now) : TRUE,
                                    level, passed)))
    /\ UNCHANGED <<sound_tracking, word_tracking, level, prosody, realtime>>

\* The session ends (stop requested, or no feedback).
EndTraining ==
    /\ level # 0
    /\ level' = 0
    /\ UNCHANGED <<sound_tracking, word_tracking, rhythm_progress, called, reports,
                   prosody, realtime>>

InitProgress == Entered(SoundOf(0, << >>, 0))

NextProgress ==
    \/ \E npvi \in {45} : set_rhythm_baseline(npvi)
    \/ \E lvl \in 0..7 : run_realtime_rhythm_training(lvl)
    \/ \E passed \in BOOLEAN : update_rhythm_progress(passed)
    \/ EndTraining

SpecProgress == InitProgress /\ [][NextProgress]_vars

\* ------------------------------------------------------------------------
\* realtime.py, recorder.py: one drill of the real-time session
\* ------------------------------------------------------------------------

\* asyncio.Queue(maxsize=100)
QueueMaxsize == 100

\* A chunk of audio bytes in the queue.
Chunk == [kind |-> "bytes"]

\* RealtimeFeedback, by where it was made.
RealtimeFeedback(from) == [kind |-> "feedback", from |-> from]

\* queue.full()
Full(queue) == Len(queue) >= QueueMaxsize

\* The tasks and the position of run_drill are in session: run_drill is where
\* the coroutine stands ("connect", "receive", "stop_*" before a call of
\* audio_streamer.stop(), "put_*" inside its queue.put(None), "cancel_send",
\* "return", "returned"), send_task is where _send_audio stands ("get",
\* "send", "done", "cancelled"), timeout is the asyncio.timeout(30).
At(position) == session.run_drill = position

\* run_drill up to the connection: returns None at once when stop was
\* requested, otherwise starts the audio streamer.
run_drill ==
    /\ At("idle")
    /\ IF session.stop_requested
       THEN /\ session' = [session EXCEPT !.run_drill = "returned", !.returned = None]
            /\ UNCHANGED audio_streamer
       ELSE /\ session' = [session EXCEPT !.state = "LISTENING", !.run_drill = "connect"]
            /\ audio_streamer' = [running |-> TRUE, stream |-> "open", queue |-> << >>]
    /\ UNCHANGED <<prosody, storage>>

\* _audio_callback: a chunk is put in the queue, and dropped when it is full.
_audio_callback ==
    /\ audio_streamer.running
    /\ audio_streamer.stream = "open"
    /\ ~Full(audio_streamer.queue)
    /\ audio_streamer' = [audio_streamer EXCEPT !.queue = Append(@, Chunk)]
    /\ UNCHANGED <<session, prosody, storage>>

\* client.aio.live.connect succeeds: the timeout is armed and the two tasks
\* are created.
Connected ==
    /\ At("connect")
    /\ session' = [session EXCEPT !.run_drill = "receive", !.send_task = "get",
                                  !.receive_task = "receiving", !.timeout = "armed"]
    /\ UNCHANGED <<audio_streamer, prosody, storage>>

\* client.aio.live.connect raises: except Exception calls stop().
ConnectRaises ==
    /\ At("connect")
    /\ session' = [session EXCEPT !.run_drill = "stop_error"]
    /\ UNCHANGED <<audio_streamer, prosody, storage>>

\* stream_audio gets an item: None ends the generator, a chunk is yielded
\* and _send_audio sends it unless the session is stopping.  On an empty
\* queue the get is tried again every 0.5 s while running is true.
SendGet ==
    /\ session.send_task = "get"
    /\ audio_streamer.queue # << >>
    /\ audio_streamer' = [audio_streamer EXCEPT !.queue = Tail(@)]
    /\ session' = [session EXCEPT !.send_task =
                      IF Head(audio_streamer.queue) = None \/ session.stop_requested
                          \/ session.state = "STOPPED"
                      THEN "done" ELSE "send"]
    /\ UNCHANGED <<prosody, storage>>

\* send_realtime_input returns (or raises, which _send_audio swallows): the
\* generator goes on while running, and ends without another get otherwise.
Sent(raised) ==
    /\ session.send_task = "send"
    /\ session' = [session EXCEPT !.send_task =
                      IF audio_streamer.running /\ ~raised THEN "get" ELSE "done"]
    /\ UNCHANGED <<audio_streamer, prosody, storage>>

\* _receive_responses returns the parsed feedback (a feedback with "stop"
\* sets _stop_requested) and run_drill goes on to stop the streamer.
Received(stop_asked) ==
    /\ At("receive")
    /\ session.receive_task = "receiving"
    /\ session' = [session EXCEPT !.receive_task = "done",
                                  !.stop_requested = @ \/ stop_asked,
                                  !.returned = RealtimeFeedback("parsed"),
                                  !.run_drill = "stop_normal"]
    /\ UNCHANGED <<audio_streamer, prosody, storage>>

\* _check_keyboard reads a q.
KeyboardQuit ==
    /\ ~At("returned")
    /\ ~session.stop_requested
    /\ session' = [session EXCEPT !.stop_requested = TRUE]
    /\ UNCHANGED <<audio_streamer, prosody, storage>>

\* Where run_drill goes on after a call of stop() made at a position.
AfterStop(position) ==
    IF position \in {"stop_normal", "put_normal"} THEN "cancel_send" ELSE "return"

\* The position inside the queue.put(None) of the stop() called at one.
PutOf(position) ==
    IF position = "stop_normal" THEN "put_normal"
    ELSE IF position = "stop_timeout" THEN "put_timeout"
    ELSE "put_error"

\* The feedback of the except branch that called stop().
FeedbackOf(position, feedback) ==
    IF position \in {"stop_timeout", "put_timeout"} THEN RealtimeFeedback("timed out")
    ELSE IF position \in {"stop_error", "put_error"} THEN RealtimeFeedback("error")
    ELSE feedback

\* AsyncAudioStreamer.stop() up to its await: running is cleared, the input
\* stream closed, and None is put when the queue has room; on a full queue
\* the put waits.
stop ==
    /\ session.run_drill \in {"stop_normal", "stop_timeout", "stop_error"}
    /\ audio_streamer' =
          [running |-> FALSE, stream |-> "none",
           queue |-> IF Full(audio_streamer.queue) THEN audio_streamer.queue
                     ELSE Append(audio_streamer.queue, None)]
    /\ session' =
          IF Full(audio_streamer.queue)
          THEN [session EXCEPT !.run_drill = PutOf(session.run_drill)]
          ELSE [session EXCEPT !.run_drill = AfterStop(session.run_drill),
                               !.returned = FeedbackOf(session.run_drill, @)]
    /\ UNCHANGED <<prosody, storage>>

\* The queue.put(None) of stop() that waited gets a free slot.
PutNone ==
    /\ session.run_drill \in {"put_normal", "put_timeout", "put_error"}
    /\ ~Full(audio_streamer.queue)
    /\ audio_streamer' = [audio_streamer EXCEPT !.queue = Append(@, None)]
    /\ session' = [session EXCEPT !.run_drill = AfterStop(session.run_drill),
                                  !.returned = FeedbackOf(session.run_drill, @)]
    /\ UNCHANGED <<prosody, storage>>

\* send_task.cancel() and await send_task, then the end of the timeout block.
CancelSend ==
    /\ At("cancel_send")
    /\ session' = [session EXCEPT !.send_task = IF @ = "done" THEN @ ELSE "cancelled",
                                  !.timeout = "off",
                                  !.run_drill = "return"]
    /\ UNCHANGED <<audio_streamer, prosody, storage>>

\* asyncio.timeout(30) expires while run_drill awaits inside the block: the
\* await is cancelled (with the receive task when it is the one awaited) and
\* except asyncio.TimeoutError calls stop(); the send task is left as it is.
Timeout ==
    /\ session.timeout = "armed"
    /\ session.run_drill \in {"receive", "put_normal"}
    /\ session' = [session EXCEPT !.timeout = "expired",
                                  !.receive_task = IF @ = "receiving" THEN "cancelled" ELSE @,
                                  !.run_drill = "stop_timeout"]
    /\ UNCHANGED <<audio_streamer, prosody, storage>>

\* The end of run_drill: None when stop was requested, the feedback otherwise.
Return ==
    /\ At("return")
    /\ session' = [session EXCEPT
                      !.run_drill = "returned",
                      !.state = IF session.stop_requested THEN @ ELSE "SHOWING_FEEDBACK",
                      !.returned = IF session.stop_requested THEN None ELSE @]
    /\ UNCHANGED <<audio_streamer, prosody, storage>>

InitRealtime == Entered(SoundOf(0, << >>, 0))

NextRealtime ==
    \/ run_drill
    \/ _audio_callback
    \/ Connected
    \/ ConnectRaises
    \/ SendGet
    \/ \E raised \in BOOLEAN : Sent(raised)
    \/ \E stop_asked \in BOOLEAN : Received(stop_asked)
    \/ KeyboardQuit
    \/ stop
    \/ PutNone
    \/ CancelSend
    \/ Timeout
    \/ Return

SpecRealtime == InitRealtime /\ [][NextRealtime]_vars

\* ------------------------------------------------------------------------
\* Properties, and the predicates on recordings and results they are
\* stated with
\* ------------------------------------------------------------------------

\* What the five analyzers have returned in the current call, in order.
Returned == <<pitch_result, volume_result, tempo_result, rhythm_result, pause_result>>

\* The number of samples of the contour that have a value, which is the
\* length of the resampled sequence when the time range covers the contour.
ValidSamples(intensity) ==
    Cardinality({i \in 1..Len(intensity.values) : intensity.values[i] # NaN})

\* The frequencies of the voiced frames.
VoicedHz(f0) == {f0[i] : i \in {j \in 1..Len(f0) : f0[j] > 0}}

LowestHz(f0) == CHOOSE f \in VoicedHz(f0) : \A g \in VoicedHz(f0) : f <= g
HighestHz(f0) == CHOOSE f \in VoicedHz(f0) : \A g \in VoicedHz(f0) : f >= g

\* C1: whatever the recording (recordings with no voiced frame, with an
\* empty or too short contour, with too few nuclei or too few valid
\* intervals included), the score every analyzer returns is an integer
\* from 1 to 10.
C1_ScoreInRange ==
    \A i \in 1..5 :
        Returned[i].kind # "none" =>
            Returned[i].kind = "report" /\ Returned[i].score \in 1..10

\* All five analyzers have returned on a recording with too few nuclei for
\* the rhythm analysis.
C1_Witness ==
    /\ pc = "done"
    /\ rhythm_result.feedback[1] = "Not enough syllables detected"
    /\ \A i \in 1..5 : Returned[i].kind = "report"

\* C2: the overall score is the weighted sum 0.25 p + 0.20 v + 0.20 t +
\* 0.20 r + 0.15 pa rounded to one decimal (in twentieths the exact sum is
\* 5p + 4v + 4t + 4r + 3pa, and the score in tenths lies within half a tenth
\* of it); the weights add up to exactly 1.0, five scores of 10 give
\* exactly 10.0 and five scores of 1 give exactly 1.0.
C2_WeightedOverall ==
    analysis.kind = "report" =>
        /\ 2 * analysis.overall_score
               - (5 * analysis.pitch.score + 4 * analysis.volume.score
                  + 4 * analysis.tempo.score + 4 * analysis.rhythm.score
                  + 3 * analysis.pauses.score) \in {-1, 0, 1}
        /\ (\A i \in 1..5 : Returned[i].score = 10) =>
               /\ analysis.overall_score = 100
               /\ WeightedSum(10, 10, 10, 10, 10) = [n |-> 200, d |-> 0]
        /\ (\A i \in 1..5 : Returned[i].score = 1) =>
               /\ analysis.overall_score = 10
               /\ WeightedSum(1, 1, 1, 1, 1) = [n |-> 20, d |-> 0]

\* The overall score of five scores whose exact weighted sum (6.45) lies
\* midway between two tenths.
C2_Witness ==
    /\ analysis.kind = "report"
    /\ analysis.pitch.score = 9 /\ analysis.volume.score = 2
    /\ analysis.tempo.score = 10 /\ analysis.rhythm.score = 6
    /\ analysis.pauses.score = 4
    /\ analysis.overall_score \in {64, 65}

C4_AlwaysAReport ==
    ValidRange(sound.intensity) =>
        /\ pc # "raised"
        /\ \A i \in 1..5 : Returned[i].kind \in {"none", "report"}
        /\ \A i \in 1..5 : Returned[i].kind = "report" => Returned[i].score \in 1..10
        /\ (sound.duration.n = 0 /\ tempo_result.kind = "report") =>
               /\ tempo_result.syllables_per_second = 0
               /\ tempo_result.estimated_wpm = 0
        /\ (sound.duration.n = 0 /\ pause_result.kind = "report") =>
               /\ pause_result.pause_ratio = 0
               /\ pause_result.pause_count = 0
               /\ PausesPer30s(pause_result.pause_count, sound.duration.n).num = 0
        /\ pc = "done" => analysis.kind = "report" /\ analysis.overall_score \in 10..100

\* analyze_prosody has returned on the empty recording (zero duration, no
\* sample, no voiced frame).
C4_Witness ==
    /\ pc = "done"
    /\ sound.duration.n = 0
    /\ ValidSamples(sound.intensity) = 0
    /\ VoicedHz(sound.f0) = {}
    /\ analysis.kind = "report"

C6_UnvoicedDiscarded ==
    pitch_result.kind # "none" =>
        /\ pitch_result.kind = "report"
        /\ VoicedHz(sound.f0) = {} =>
               /\ pitch_result.score = 1
               /\ pitch_result.min_hz = 0 /\ pitch_result.max_hz = 0
               /\ pitch_result.mean_hz = 0 /\ pitch_result.range_hz = 0
               /\ pitch_result.std_hz = 0
               /\ pitch_result.feedback[1] = "No voiced speech detected"
        /\ VoicedHz(sound.f0) # {} =>
               /\ pitch_result.min_hz = 10 * LowestHz(sound.f0)
               /\ pitch_result.max_hz = 10 * HighestHz(sound.f0)
               /\ pitch_result.feedback[1] # "No voiced speech detected"

\* analyze_pitch has returned on frames that are all unvoiced.
C6_Witness ==
    /\ pitch_result.kind = "report"
    /\ Len(sound.f0) > 0
    /\ VoicedHz(sound.f0) = {}

\* C7: with r the range of the voiced frequencies in Hz, the pitch score is
\* 10 for r >= 150, 7 + trunc(3 (r - 100) / 50) for 100 <= r < 150,
\* 4 + trunc(3 (r - 50) / 50) for 50 <= r < 100 and trunc(4 r / 50), at
\* least 1, below 50; a range of exactly 150 Hz scores 10.
C7_PitchScoreSegments ==
    (pitch_result.kind = "report" /\ VoicedHz(sound.f0) # {}) =>
        LET r == HighestHz(sound.f0) - LowestHz(sound.f0)
        IN  /\ pitch_result.range_hz = 10 * r
            /\ r >= 150 => pitch_result.score = 10
            /\ (100 <= r /\ r < 150) => pitch_result.score = 7 + (3 * (r - 100)) \div 50
            /\ (50 <= r /\ r < 100) => pitch_result.score = 4 + (3 * (r - 50)) \div 50
            /\ (13 <= r /\ r < 50) => pitch_result.score = (4 * r) \div 50
            /\ r < 13 => pitch_result.score = 1

\* Voiced frames spanning exactly 150 Hz have been scored 10.
C7_Witness ==
    /\ pitch_result.kind = "report"
    /\ VoicedHz(sound.f0) # {}
    /\ HighestHz(sound.f0) - LowestHz(sound.f0) = 150
    /\ pitch_result.score = 10

\* C8: when fewer than 10 samples of the contour have a value, analyze_tempo
\* returns the "too short" report -- score 5 with syllables_per_second,
\* estimated_wpm and variation_percent all 0 -- whatever the samples are;
\* no peak is looked for.
C8_TempoTooShort ==
    (tempo_result.kind # "none" /\ ValidRange(sound.intensity)
        /\ ValidSamples(sound.intensity) < 10) =>
        /\ tempo_result.kind = "report"
        /\ tempo_result.score = 5
        /\ tempo_result.syllables_per_second = 0
        /\ tempo_result.estimated_wpm = 0
        /\ tempo_result.variation_percent = 0
        /\ tempo_result.feedback[1] = "Audio too short for tempo analysis"

\* analyze_tempo has returned on 9 samples that hold a nucleus.
C8_Witness ==
    /\ tempo_result.kind = "report"
    /\ ValidSamples(sound.intensity) = 9
    /\ \E i \in 2..8 : /\ sound.intensity.values[i] > sound.intensity.values[i - 1]
                       /\ sound.intensity.values[i] > sound.intensity.values[i + 1]

\* C9: when fewer than 20 samples of the contour have a value,
\* analyze_rhythm returns the neutral report: score 5, pvi 40 and
\* is_syllable_timed true.
C9_RhythmNeutral ==
    (rhythm_result.kind # "none" /\ ValidRange(sound.intensity)
        /\ ValidSamples(sound.intensity) < 20) =>
        /\ rhythm_result.kind = "report"
        /\ rhythm_result.score = 5
        /\ rhythm_result.pvi = 400
        /\ rhythm_result.is_syllable_timed = TRUE

\* The samples at which a syllable nucleus begins: the first sample of each
\* run of samples at the level of a nucleus.
NucleusStarts(values) ==
    {i \in 1..Len(values) :
        /\ values[i] >= Level("weak")
        /\ (i = 1 \/ values[i - 1] < Level("weak"))}

\* The k-th lowest element of a set of numbers with more than k - 1 elements.
Lowest(S, k) == CHOOSE i \in S : Cardinality({j \in S : j < i}) = k - 1

\* The nuclei lie a, b, a, b, ... samples apart.
Alternating(starts, a, b) ==
    \A i \in starts :
        \/ ~(\E j \in starts : j > i)
        \/ /\ (i - Lowest(starts, 1)) % (a + b) = 0
           /\ i + a \in starts
           /\ ~(\E j \in starts : i < j /\ j < i + a)
        \/ /\ (i - Lowest(starts, 1)) % (a + b) = a
           /\ i + b \in starts
           /\ ~(\E j \in starts : i < j /\ j < i + b)

\* The nuclei are the only peaks of the contour: no speech lies between two
\* silences, where it would be a peak of its own.
OnlyNuclei(values) ==
    ~ \E i, j \in 1..Len(values) :
        /\ i + 1 < j
        /\ values[i] = Level("silence")
        /\ values[j] = Level("silence")
        /\ \E m \in (i + 1)..(j - 1) : values[m] > Level("silence")

\* C10: on recordings in which the nuclei are the only peaks,
\* nPVI = 100 * (sum over the pairs of successive intervals of
\* |d1 - d2| / ((d1 + d2) / 2)) / (number of intervals - 1).  For nuclei
\* whose gaps alternate between a and b hundredths of a second every pair
\* contributes |a - b| / ((a + b) / 2), so the reported pvi (in tenths,
\* rounded) is 2000 |a - b| / (a + b) and is_syllable_timed says that it is
\* below 55.  Hence 4 or more nuclei a constant 0.3 s apart give pvi 0 and
\* is_syllable_timed, and gaps alternating 0.15 s / 0.45 s give pvi 100
\* and not is_syllable_timed.
C10_PairwiseVariability ==
    (rhythm_result.kind = "report"
        /\ OnlyNuclei(sound.intensity.values)
        /\ Cardinality(NucleusStarts(sound.intensity.values)) >= 3) =>
        LET starts == NucleusStarts(sound.intensity.values)
            a == Lowest(starts, 2) - Lowest(starts, 1)
            b == Lowest(starts, 3) - Lowest(starts, 2)
        IN  (a \in 10..99 /\ b \in 10..99 /\ Alternating(starts, a, b)) =>
                /\ 2 * Abs(rhythm_result.pvi * (a + b) - 2000 * Abs(a - b)) <= a + b
                /\ rhythm_result.is_syllable_timed = (200 * Abs(a - b) < 55 * (a + b))
                /\ (a = 30 /\ b = 30 /\ Cardinality(starts) >= 4) =>
                       rhythm_result.pvi = 0 /\ rhythm_result.is_syllable_timed
                /\ (a = 15 /\ b = 45) =>
                       rhythm_result.pvi = 1000 /\ ~rhythm_result.is_syllable_timed

\* analyze_rhythm has returned pvi 100 on four nuclei 0.15 s, 0.45 s and
\* 0.15 s apart.
C10_Witness ==
    /\ rhythm_result.kind = "report"
    /\ Cardinality(NucleusStarts(sound.intensity.values)) = 4
    /\ Alternating(NucleusStarts(sound.intensity.values), 15, 45)
    /\ rhythm_result.pvi = 1000
    /\ ~rhythm_result.is_syllable_timed

\* Samples i .. i + len - 1 of vals are a whole run below the threshold:
\* the sample before it (if any) and the sample after it are not below.
SubThresholdRun(vals, threshold100, i, len) ==
    /\ i + len <= Len(vals)
    /\ \A j \in i..(i + len - 1) : 100 * vals[j] < threshold100
    /\ ~(100 * vals[i + len] < threshold100)
    /\ (i = 1 \/ ~(100 * vals[i - 1] < threshold100))

\* The pauses recorded from times[i] to times[j].
RecordedBetween(pauses, times, i, j) ==
    {k \in 1..Len(pauses) : pauses[k].start = times[i] /\ pauses[k].end = times[j]}

\* Every run of 20 samples below the threshold is recorded once, no run of
\* 19 samples is recorded.
MinimumInclusive(rs, threshold100, pauses) ==
    \A i \in 1..Len(rs.intensity_values) :
        /\ SubThresholdRun(rs.intensity_values, threshold100, i, 20) =>
               Cardinality(RecordedBetween(pauses, rs.times, i, i + 20)) = 1
        /\ SubThresholdRun(rs.intensity_values, threshold100, i, 19) =>
               RecordedBetween(pauses, rs.times, i, i + 19) = {}

\* The samples and the threshold analyze_pauses works on.
PauseInput(rs) ==
    [rs |-> rs,
     threshold100 |-> IF Len(rs.intensity_values) = 0 THEN 0
                      ELSE Percentile100(rs.intensity_values, 25)]

\* C11: the minimum pause duration is inclusive.  A run of samples below
\* the threshold that lasts exactly 0.2 s from its first sample to the
\* first sample back at or above the threshold (20 steps of 10 ms) is
\* recorded as exactly one pause, and a run that lasts 0.19 s is not
\* recorded.
C11_MinimumInclusive ==
    (pause_result.kind = "report" /\ ~PauseTooShort(Resample(sound.intensity).intensity_values)) =>
        MinimumInclusive(PauseInput(Resample(sound.intensity)).rs,
                         PauseInput(Resample(sound.intensity)).threshold100,
                         pause_result.pauses)

\* The samples hold a run of len samples below the threshold that begins
\* at or after the time from (in hundredths of a second).
HasRun(rs, threshold100, len, from) ==
    \E i \in 1..Len(rs.intensity_values) :
        /\ rs.times[i].n >= from
        /\ SubThresholdRun(rs.intensity_values, threshold100, i, len)

\* analyze_pauses has returned no pause on a recording with a run of 20
\* samples below the threshold that begins after 1.8 s.
C11_Witness ==
    /\ pause_result.kind = "report"
    /\ pause_result.pause_count = 0
    /\ HasRun(PauseInput(Resample(sound.intensity)).rs,
              PauseInput(Resample(sound.intensity)).threshold100, 20, 180)

\* The peaks are in increasing index order, at least 10 samples apart.
SpacedSamples(peaks) ==
    \A i \in 1..(Len(peaks) - 1) : peaks[i + 1] - peaks[i] >= 10

\* Every interval between the times of successive peaks is at least 0.1 s.
SpacedTimes(times, peaks) ==
    \A i \in 1..(Len(peaks) - 1) :
        FlLe(TimeOf(10), TimeSub(times[peaks[i + 1]], times[peaks[i]]))

\* C12: in analyze_tempo and in analyze_rhythm the detected nuclei come in
\* increasing index order, no two of them closer than 10 samples, and so
\* every interval between successive nuclei is at least 0.1 s.
C12_NucleiSpaced ==
    /\ (tempo_result.kind = "report" /\ ~TempoTooShort(Resample(sound.intensity).intensity_values)) =>
          /\ SpacedSamples(FindPeaksTempo(Resample(sound.intensity).intensity_values))
          /\ SpacedTimes(Resample(sound.intensity).times,
                         FindPeaksTempo(Resample(sound.intensity).intensity_values))
    /\ (rhythm_result.kind = "report" /\ ~RhythmTooShort(Resample(sound.intensity).intensity_values)) =>
          /\ SpacedSamples(FindPeaksRhythm(Resample(sound.intensity).intensity_values))
          /\ SpacedTimes(Resample(sound.intensity).times,
                         FindPeaksRhythm(Resample(sound.intensity).intensity_values))

\* analyze_tempo has returned on nuclei that are 10 samples apart and whose
\* times differ by less than 0.1 s.
C12_Witness ==
    /\ tempo_result.kind = "report"
    /\ ~TempoTooShort(Resample(sound.intensity).intensity_values)
    /\ SpacedSamples(FindPeaksTempo(Resample(sound.intensity).intensity_values))
    /\ ~SpacedTimes(Resample(sound.intensity).times,
                    FindPeaksTempo(Resample(sound.intensity).intensity_values))

\* Every peak is the first sample of its flat run: the sample before it is
\* lower.
FirstOfPlateau(x, peaks) ==
    \A i \in 1..Len(peaks) : peaks[i] = 1 \/ x[peaks[i] - 1] < x[peaks[i]]

\* Some peak lies on a flat run of two or more samples.
OnPlateau(x, peaks) ==
    \E i \in 1..Len(peaks) :
        \/ (peaks[i] > 1 /\ x[peaks[i] - 1] = x[peaks[i]])
        \/ (peaks[i] < Len(x) /\ x[peaks[i] + 1] = x[peaks[i]])

\* C13: when the loudness has a flat maximum (two or more adjacent samples
\* of the same maximal value) the nucleus detector reports the first sample
\* of the flat run as the peak, in analyze_tempo and in analyze_rhythm.
C13_PlateauFirstIndex ==
    /\ (tempo_result.kind = "report" /\ ~TempoTooShort(Resample(sound.intensity).intensity_values)) =>
          FirstOfPlateau(Resample(sound.intensity).intensity_values,
                         FindPeaksTempo(Resample(sound.intensity).intensity_values))
    /\ (rhythm_result.kind = "report" /\ ~RhythmTooShort(Resample(sound.intensity).intensity_values)) =>
          FirstOfPlateau(Resample(sound.intensity).intensity_values,
                         FindPeaksRhythm(Resample(sound.intensity).intensity_values))

\* analyze_rhythm has returned on a contour whose nuclei are flat runs of
\* three samples, and a detected peak is not the first sample of its run.
C13_Witness ==
    /\ rhythm_result.kind = "report"
    /\ ~RhythmTooShort(Resample(sound.intensity).intensity_values)
    /\ OnPlateau(Resample(sound.intensity).intensity_values,
                 FindPeaksRhythm(Resample(sound.intensity).intensity_values))
    /\ ~FirstOfPlateau(Resample(sound.intensity).intensity_values,
                       FindPeaksRhythm(Resample(sound.intensity).intensity_values))

\* C14: the nucleus detector returns no nucleus at all when fewer than 2
\* points qualify as peaks: it never returns exactly one nucleus, and the
\* syllable count of analyze_tempo is never 1.
C14_NeverOneNucleus ==
    /\ (tempo_result.kind = "report" /\ ~TempoTooShort(Resample(sound.intensity).intensity_values)) =>
          /\ Len(FindPeaksTempo(Resample(sound.intensity).intensity_values)) # 1
          /\ (sound.duration.n > 0 =>
                tempo_result.syllables_per_second
                    # RoundHalfEven(10000, TimeSub(sound.intensity.end_time,
                                                   sound.intensity.start_time).n))
    /\ (rhythm_result.kind = "report" /\ ~RhythmTooShort(Resample(sound.intensity).intensity_values)) =>
          Len(FindPeaksRhythm(Resample(sound.intensity).intensity_values)) # 1

\* analyze_tempo has returned a syllable rate of one syllable in the whole
\* recording, on a clip with a single nucleus.
C14_Witness ==
    /\ tempo_result.kind = "report"
    /\ ~TempoTooShort(Resample(sound.intensity).intensity_values)
    /\ Len(FindPeaksTempo(Resample(sound.intensity).intensity_values)) = 1
    /\ tempo_result.syllables_per_second > 0

FourSegment(lo, good, excellent, scale, x) ==
    Min2(10, Max2(1,
        IF x >= excellent * scale THEN 10
        ELSE IF x >= good * scale
        THEN 7 + Trunc((x - good * scale) * 3, (excellent - good) * scale)
        ELSE IF x >= lo * scale
        THEN 4 + Trunc((x - lo * scale) * 3, (good - lo) * scale)
        ELSE Max2(1, Trunc(x * 4, lo * scale))))

\* C16: the volume score and the rhythm score are the four-segment function
\* of the pitch score with the thresholds substituted: the pitch score of a
\* range x is P(50, 100, 150, x), the volume score of a stress contrast x
\* is P(3, 6, 10, x) and the rhythm score of an nPVI x is P(40, 55, 65, x),
\* with the same truncation and the same clamp.
C16_SameFourSegments ==
    /\ pitch_result.kind = "report" /\ "metric" \in DOMAIN pitch_result =>
          pitch_result.score = FourSegment(50, 100, 150, 1, pitch_result.metric)
    /\ volume_result.kind = "report" /\ "metric" \in DOMAIN volume_result =>
          volume_result.score = FourSegment(3, 6, 10, 100, volume_result.metric)
    /\ rhythm_result.kind = "report" /\ "metric" \in DOMAIN rhythm_result =>
          rhythm_result.score = FourSegment(40, 55, 65, 10, rhythm_result.metric)

\* A stress contrast of 4.5 dB and an nPVI of 45.0 have both been scored 5,
\* in the segment between the lowest threshold and the good one.
C16_Witness ==
    /\ pc = "scored"
    /\ volume_result.metric = 450 /\ volume_result.score = 5
    /\ rhythm_result.metric = 450 /\ rhythm_result.score = 5
    /\ pitch_result.score = 10

\* The samples of the contour that have a value, in order.
ValidValues(intensity) == SelectSeq(intensity.values, LAMBDA v : v # NaN)

\* The samples of vals above 40 dB.
Above40(vals) == SelectSeq(vals, LAMBDA v : v > 40)

\* The samples of vals above the 20th percentile of vals (vals not empty).
AboveP20(vals) == SelectSeq(vals, LAMBDA v : 100 * v > Percentile100(vals, 20))

\* The speech samples of C17 for the samples vals (not empty).
ExpectedSpeech(vals) ==
    IF Len(Above40(vals)) >= 10 THEN Above40(vals)
    ELSE IF Len(AboveP20(vals)) > 0 THEN AboveP20(vals)
    ELSE vals

\* mean_db (in tenths) is the mean of the samples, rounded to one decimal.
IsMeanOf(mean_db, samples) ==
    2 * Abs(mean_db * Len(samples) - 10 * SumSeq(samples, Len(samples))) <= Len(samples)

\* C17: when the contour has at least one valid sample, the speech samples
\* analyze_volume takes its statistics from are never empty: they are the
\* samples above 40 dB; if fewer than 10 of those exist, the samples above
\* the 20th percentile of all samples; if there is none, all samples.  The
\* mean of the report is the mean of those samples.
C17_SpeechSamplesNeverEmpty ==
    (volume_result.kind # "none" /\ ValidRange(sound.intensity)
        /\ Len(ValidValues(sound.intensity)) >= 1) =>
        /\ volume_result.kind = "report"
        /\ Len(SpeechValues(ResampleVolume(sound.intensity))) >= 1
        /\ SpeechValues(ResampleVolume(sound.intensity))
               = ExpectedSpeech(ValidValues(sound.intensity))
        /\ IsMeanOf(volume_result.mean_db, ExpectedSpeech(ValidValues(sound.intensity)))

\* analyze_volume has returned on a flat clip of fewer than 10 samples: no
\* sample lies above the 20th percentile, and the mean is that of all
\* samples.
C17_Witness ==
    /\ volume_result.kind = "report"
    /\ Len(ValidValues(sound.intensity)) \in 1..9
    /\ Len(AboveP20(ValidValues(sound.intensity))) = 0
    /\ volume_result.mean_db = 10 * Level("floor")

\* The metric w / scale lies outside [100, 180] WPM.
WpmOutside(wpm) == wpm.num < 100 * wpm.den \/ wpm.num > 180 * wpm.den

\* The variation sub-score of C18 for a variation of 100 * sqrt(v2) / s
\* percent: 10, 7, 5 or 3 for at least 25, 15, 5 or fewer percent.
VariationSub(var) ==
    IF 10000 * var.v2 >= 625 * var.s * var.s THEN 10
    ELSE IF 10000 * var.v2 >= 225 * var.s * var.s THEN 7
    ELSE IF 10000 * var.v2 >= 25 * var.s * var.s THEN 5
    ELSE 3

\* C18: the tempo score is trunc(0.7 * wpm_sub + 0.3 * variation_sub),
\* where variation_sub is 10, 7, 5 or 3 for a variation of at least 25, at
\* least 15, at least 5 or fewer percent; and when the estimated WPM lies
\* outside [100, 180] the score is at most 7 whatever the variation.
C18_WeightedTempoScore ==
    (tempo_result.kind = "report" /\ "wpm_score" \in DOMAIN tempo_result) =>
        /\ tempo_result.variation_score = VariationSub(tempo_result.metric.var)
        /\ tempo_result.score =
              IF WpmOutside(tempo_result.metric.wpm)
              THEN Min2(7, Trunc(7 * tempo_result.wpm_score
                                 + 3 * tempo_result.variation_score, 10))
              ELSE Trunc(7 * tempo_result.wpm_score + 3 * tempo_result.variation_score, 10)
        /\ WpmOutside(tempo_result.metric.wpm) => tempo_result.score <= 7

\* Sub-scores of 3 and 3 (a slow, even pace) have been combined to 2.
C18_Witness ==
    /\ pc = "scored"
    /\ tempo_result.wpm_score = 3
    /\ tempo_result.variation_score = 3
    /\ tempo_result.score = 2

\* C19: the WPM sub-score.  Inside [100, 180] it is 10 minus
\* trunc(|WPM - 140| / 20) and never below 7; below 100 it is proportional
\* to WPM / 100 (trunc(6 * WPM / 100)) with a floor of 2; above 180 it is
\* 8 less one point for every full 15 WPM over 180, with a floor of 2.  It
\* is always in 2..10.
C19_WpmSubScore ==
    (tempo_result.kind = "report" /\ "wpm_score" \in DOMAIN tempo_result) =>
        /\ tempo_result.wpm_score \in 2..10
        /\ ~WpmOutside(tempo_result.metric.wpm) =>
              /\ tempo_result.wpm_score =
                    10 - (Abs(tempo_result.metric.wpm.num - 140 * tempo_result.metric.wpm.den)
                            \div (20 * tempo_result.metric.wpm.den))
              /\ tempo_result.wpm_score >= 7
        /\ tempo_result.metric.wpm.num < 100 * tempo_result.metric.wpm.den =>
              tempo_result.wpm_score =
                  Max2(2, (6 * tempo_result.metric.wpm.num)
                             \div (100 * tempo_result.metric.wpm.den))
        /\ tempo_result.metric.wpm.num > 180 * tempo_result.metric.wpm.den =>
              tempo_result.wpm_score =
                  Max2(2, 8 - ((tempo_result.metric.wpm.num - 180 * tempo_result.metric.wpm.den)
                                  \div (15 * tempo_result.metric.wpm.den)))

\* An estimated WPM of 290, 110 over the limit, has been given the floor
\* of 2.
C19_Witness ==
    /\ pc = "scored"
    /\ tempo_result.wpm_score = 2
    /\ tempo_result.metric.wpm = [num |-> 290, den |-> 1]

\* The intervals between successive peaks that last more than 0.05 s and
\* less than 1.0 s, by the number of 10 ms steps between the two peaks.
StrictlyBetween(all_intervals) ==
    SelectSeq(all_intervals, LAMBDA iv : 5 < iv.n /\ iv.n < 100)

\* The report of C20 for the detected peaks and the intervals kept.
RhythmAsClaimed(result, peaks, kept) ==
    IF Len(peaks) < 3 \/ Len(kept) < 2
    THEN result.score = 5 /\ result.pvi = 400 /\ result.is_syllable_timed = TRUE
    ELSE result.pvi = RoundHalfEven(10 * Pvi(kept).num, Pvi(kept).den)

\* C20: analyze_rhythm computes the nPVI from the intervals between
\* successive nuclei that are strictly between 0.05 s and 1.0 s only (an
\* interval of exactly 1.0 s is left out), and returns the neutral report
\* (score 5, pvi 40, is_syllable_timed true) when fewer than 3 nuclei are
\* detected or fewer than 2 such intervals remain.
C20_IntervalsFiltered ==
    (rhythm_result.kind = "report" /\ ~RhythmTooShort(Resample(sound.intensity).intensity_values)) =>
        RhythmAsClaimed(rhythm_result,
                        FindPeaksRhythm(Resample(sound.intensity).intensity_values),
                        StrictlyBetween(PeakIntervals(
                            Resample(sound.intensity).times,
                            FindPeaksRhythm(Resample(sound.intensity).intensity_values))))

\* analyze_rhythm has computed an nPVI (0) on four nuclei that are exactly
\* 1.0 s apart.
C20_Witness ==
    /\ rhythm_result.kind = "report"
    /\ Cardinality(NucleusStarts(sound.intensity.values)) = 4
    /\ Alternating(NucleusStarts(sound.intensity.values), 100, 100)
    /\ rhythm_result.pvi = 0
    /\ rhythm_result.feedback[1] = "Very syllable-timed"

\* C21: whenever analyze_rhythm computes an nPVI, is_syllable_timed is true
\* exactly when the nPVI is below english_target (55); an nPVI of exactly 55
\* is classified stress-timed.
C21_SyllableTimedBelowTarget ==
    rhythm_result.kind = "report"
        => (rhythm_result.is_syllable_timed <=> rhythm_result.metric < 550)

\* An nPVI of exactly 55.0 has been classified stress-timed.
C21_Witness ==
    /\ rhythm_result.kind = "report"
    /\ rhythm_result.metric = 550
    /\ ~rhythm_result.is_syllable_timed

\* Sample i is the first of a run of samples below the threshold.
RunStart(vals, threshold100, i) ==
    /\ 100 * vals[i] < threshold100
    /\ (i = 1 \/ ~(100 * vals[i - 1] < threshold100))

\* The run that begins at sample i is still open at the final sample.
FinalRun(vals, threshold100, i) ==
    /\ RunStart(vals, threshold100, i)
    /\ \A j \in i..Len(vals) : 100 * vals[j] < threshold100

\* The pause from times[i] to times[j] is recorded exactly when the
\* difference of the two times is at least min_pause.
RecordedWhenLongEnough(pauses, times, i, j, min_pause) ==
    IF FlLe(min_pause, TimeSub(times[j], times[i]))
    THEN Cardinality(RecordedBetween(pauses, times, i, j)) = 1
    ELSE RecordedBetween(pauses, times, i, j) = {}

\* A run that ends inside the recording is measured to the sample that ends
\* it, the run still open at the final sample to the last timestamp, and
\* both are recorded under the same test.
SameTestAtTheEnd(rs, threshold100, pauses, min_pause) ==
    \A i \in 1..Len(rs.intensity_values) :
        RunStart(rs.intensity_values, threshold100, i) =>
            /\ FinalRun(rs.intensity_values, threshold100, i) =>
                   RecordedWhenLongEnough(pauses, rs.times, i, Len(rs.times), min_pause)
            /\ \A len \in 1..(Len(rs.intensity_values) - i) :
                   SubThresholdRun(rs.intensity_values, threshold100, i, len) =>
                       RecordedWhenLongEnough(pauses, rs.times, i, i + len, min_pause)

EndsInRun(rs, threshold100, len) ==
    /\ Len(rs.intensity_values) > len
    /\ FinalRun(rs.intensity_values, threshold100, Len(rs.intensity_values) - len)

\* The last recorded pause ends at the last timestamp.
LastPauseAtEnd(rs, pauses) ==
    /\ Len(pauses) > 0
    /\ pauses[Len(pauses)].end = rs.times[Len(rs.times)]

LongPauses(metric) == metric.pause_count > 0 /\ metric.total_cs > 200 * metric.pause_count

\* The score after the penalty: max(1, base - 2) when the pauses are long.
AfterPenalty(base, metric) == IF LongPauses(metric) THEN Max2(1, base - 2) ELSE base

\* The score for x / 128 pauses per 30 seconds at 5 or more, and from 3 to 5.
UpperSegments(x) ==
    IF x >= 5 * 128 THEN 10 ELSE 7 + Trunc(3 * (x - 3 * 128), 2 * 128)

\* One segment from 0 to 3: one truncated linear function of the rate,
\* base + trunc(rate * p / q), floored at 1, gives the score of every rate
\* x / 128 below 3.
OneSegmentBelowGood(cfg) ==
    \E base \in 0..6, p \in 0..8, q \in 1..4 :
        \A x \in 0..(3 * 128 - 1) :
            PauseRateScore(Frac(x, 128), cfg) = Max2(1, base + Trunc(x * p, 128 * q))

\* The pause score as three segments with breakpoints at 3 and 5 only.
ThreeSegmentPauseScore(result, cfg) ==
    /\ result.metric.rate.num >= 3 * result.metric.rate.den =>
           result.score = AfterPenalty(UpperSegments(Trunc(128 * result.metric.rate.num,
                                                           result.metric.rate.den)),
                                       result.metric)
    /\ OneSegmentBelowGood(cfg)

\* The score for x / 128 pauses per 30 seconds in four segments.
FourSegmentPauseScore(x) ==
    IF x >= 3 * 128 THEN UpperSegments(x)
    ELSE IF x >= 128 THEN 3 + Trunc(4 * (x - 128), 2 * 128)
    ELSE Max2(1, Trunc(3 * x, 128))

\* C23 as stated: the pause score is a three-segment function of the pauses
\* per 30 seconds with breakpoints only at 3 and 5 (10 at 5 or more,
\* 7 + trunc(3 * (rate - 3) / 2) from 3 to 5, one segment below 3), lowered
\* to max(1, base - 2) when the mean pause is longer than 2.0 s.
C23_ThreeSegments ==
    pause_result.kind = "report" => ThreeSegmentPauseScore(pause_result, config.pause)

\* C23 as amended: the pause score has four segments, with a breakpoint at
\* one pause per 30 seconds besides those at 3 and 5: 10 at 5 or more,
\* 7 + trunc(3 * (rate - 3) / 2) from 3 to 5, 3 + trunc(4 * (rate - 1) / 2)
\* from 1 to 3 and max(1, trunc(3 * rate)) below 1; when the mean pause is
\* longer than 2.0 s the score is max(1, base - 2), also at 5 or more.
C23_FourSegments ==
    pause_result.kind = "report" =>
        pause_result.score =
            AfterPenalty(FourSegmentPauseScore(Trunc(128 * pause_result.metric.rate.num,
                                                     pause_result.metric.rate.den)),
                         pause_result.metric)

\* Exactly one pause per 30 seconds with a pause of 2.01 s has been scored
\* 3 - 2 = 1.
C23_Witness ==
    /\ pause_result.kind = "report"
    /\ pause_result.metric.rate = Frac(1, 1)
    /\ pause_result.metric.total_cs = 201
    /\ pause_result.score = 1

\* C24: in every report analyze_rhythm returns, computed or one of the
\* neutral defaults, the flag and the score agree: is_syllable_timed is true
\* exactly when the score is at most 6 and false exactly when it is at
\* least 7.
C24_FlagAgreesWithScore ==
    rhythm_result.kind = "report" =>
        /\ rhythm_result.is_syllable_timed <=> rhythm_result.score <= 6
        /\ ~rhythm_result.is_syllable_timed <=> rhythm_result.score >= 7

\* analyze_rhythm has returned a computed nPVI of 55.0, the lowest that is
\* not syllable-timed, with score 7.
C24_Witness ==
    /\ rhythm_result.kind = "report"
    /\ rhythm_result.pvi = 550
    /\ rhythm_result.score = 7
    /\ ~rhythm_result.is_syllable_timed

\* The result for the second recording has a larger metric and no lower
\* score than the result for the first.
NoLower(before, after) ==
    after.kind = "report" => after.score >= before.score

\* C25: every piecewise score is monotonically non-decreasing in its
\* driving metric: a larger pitch range, a larger stress contrast, a larger
\* nPVI or, with the long-pause penalty unchanged, more pauses per 30
\* seconds never gives a lower score, also across segment boundaries.
C25_ScoresMonotone ==
    first.kind = "scores" =>
        /\ NoLower(first.pitch, pitch_result)
        /\ NoLower(first.volume, volume_result)
        /\ NoLower(first.rhythm, rhythm_result)
        /\ NoLower(first.pause, pause_result)

\* A second recording has been scored higher than the first: a pitch range
\* of 75 Hz scored 5 and one of 100 Hz, in the next segment, scored 7;
\* 75 / 128 pauses per 30 seconds scored 1 and 100 / 128 scored 2.
C25_Witness ==
    /\ pc = "scored"
    /\ first.kind = "scores"
    /\ first.pitch.metric = 75 /\ first.pitch.score = 5
    /\ pitch_result.metric = 100 /\ pitch_result.score = 7
    /\ first.pause.score = 1 /\ pause_result.score = 2

\* The recorded pauses are in increasing time order and do not overlap.
InOrder(pauses) ==
    \A i \in 1..(Len(pauses) - 1) : FlLt(pauses[i].end, pauses[i + 1].start)

\* Every recorded pause lasts at least min_pause and lies between the first
\* and the last sample time.
WithinSpan(pauses, times, min_pause) ==
    \A i \in 1..Len(pauses) :
        /\ FlLe(min_pause, TimeSub(pauses[i].end, pauses[i].start))
        /\ FlLe(times[1], pauses[i].start)
        /\ FlLe(pauses[i].end, times[Len(times)])

\* The scan state with the record of whether in_pause has so far been true
\* exactly at the samples below the threshold.
Tracked(st, below) == [st EXCEPT !.tracked = @ /\ (st.in_pause <=> below)]

\* The turns lo..hi of the scan, each followed by the comparison of
\* in_pause with the sample of that turn.
RECURSIVE TrackedScan(_, _, _, _, _, _, _)
TrackedScan(st, times, vals, lo, hi, threshold100, min_pause) ==
    IF lo > hi THEN st
    ELSE IF lo = hi
    THEN Tracked(PauseStep(st, times[lo], vals[lo], threshold100, min_pause),
                 100 * vals[lo] < threshold100)
    ELSE LET half == TrackedScan(st, times, vals, lo, (lo + hi) \div 2,
                                 threshold100, min_pause)
         IN  IF half.tracked \in BOOLEAN
             THEN TrackedScan(half, times, vals, (lo + hi) \div 2 + 1, hi,
                              threshold100, min_pause)
             ELSE half

\* After every turn of the scan in_pause is true exactly when the sample of
\* that turn is below the threshold.
FlagTracksRuns(rs, threshold100, min_pause) ==
    TrackedScan([in_pause |-> FALSE, pause_start |-> TimeOf(0), pauses |-> << >>,
                 tracked |-> TRUE],
                rs.times, rs.intensity_values, 1, Len(rs.intensity_values),
                threshold100, min_pause).tracked

\* The PauseAnalysis is consistent with the samples rs.
ConsistentPauses(report, rs, threshold100, min_pause) ==
    /\ report.pause_count = Len(report.pauses)
    /\ InOrder(report.pauses)
    /\ IF PauseTooShort(rs.intensity_values)
       THEN report.pauses = << >> /\ report.total_pause_duration = 0
       ELSE /\ WithinSpan(report.pauses, rs.times, min_pause)
            /\ report.total_pause_duration <= rs.times[Len(rs.times)].n - rs.times[1].n
            /\ FlagTracksRuns(rs, threshold100, min_pause)

\* C26: in every PauseAnalysis the recorded pauses are in increasing time
\* order and pairwise non-overlapping, each lasts at least 0.2 s and lies
\* within the sampled time span, pause_count is the number of recorded
\* pauses and the total pause duration does not exceed the sampled time
\* span; during the scan in_pause is true exactly while the scan is inside
\* a run of samples below the threshold.
C26_PausesConsistent ==
    pause_result.kind = "report" =>
        ConsistentPauses(pause_result, PauseInput(Resample(sound.intensity)).rs,
                         PauseInput(Resample(sound.intensity)).threshold100,
                         TimeOf(config.pause.min_pause_duration))

\* analyze_pauses has returned two pauses, 0.42 s in total.
C26_Witness ==
    /\ pause_result.kind = "report"
    /\ pause_result.pause_count = 2
    /\ pause_result.total_pause_duration = 42
    /\ FlLt(pause_result.pauses[1].end, pause_result.pauses[2].start)

\* Every row keeps interval_days within [1, 30] and times_correct at most
\* times_practiced.
WithinSchedule(table) ==
    \A row \in table :
        /\ 1 <= row.interval_days /\ row.interval_days <= 30
        /\ row.times_correct <= row.times_practiced

\* The practice of the item key changed the table from before to after as
\* claimed: nothing when the item is not tracked; otherwise only its row,
\* practiced once more, with the interval doubled up to 30 after a correct
\* answer and back at 1 after an incorrect one.
PracticedOnce(before, after, key, was_correct) ==
    IF RowsOf(before, key) = {} THEN after = before
    ELSE /\ Cardinality(after) = Cardinality(before)
         /\ \A row \in before :
                IF row.key # key THEN row \in after
                ELSE \E new \in RowsOf(after, key) :
                        /\ new.times_practiced = row.times_practiced + 1
                        /\ new.interval_days =
                              IF was_correct
                              THEN (IF 2 * row.interval_days > 30 THEN 30
                                    ELSE 2 * row.interval_days)
                              ELSE 1

\* One call of storage.py, from the tables before it to the tables after.
PracticeStep ==
    /\ WithinSchedule(sound_tracking') /\ WithinSchedule(word_tracking')
    /\ called'.op = "update_sound_after_practice" =>
           /\ PracticedOnce(sound_tracking, sound_tracking', called'.key, called'.arg)
           /\ word_tracking' = word_tracking
    /\ called'.op = "update_word_after_practice" =>
           /\ PracticedOnce(word_tracking, word_tracking', called'.key, called'.arg)
           /\ sound_tracking' = sound_tracking

\* C27: after any sequence of update_sound_after_practice and
\* update_word_after_practice calls on a tracked item interval_days stays
\* within [1, 30]: a correct answer doubles it, capped at 30, an incorrect
\* answer resets it to 1; each call increases times_practiced by exactly 1,
\* times_correct <= times_practiced always holds, and a call for an item
\* that is not tracked changes nothing.
C27_SpacedRepetition == [][PracticeStep]_vars

\* The sound "th" has been practiced correctly six times: its interval has
\* reached 30 days and stayed there.
C27_Witness ==
    /\ called.op = "update_sound_after_practice"
    /\ \E row \in sound_tracking :
          /\ row.key = "th"
          /\ row.times_practiced = 6 /\ row.times_correct = 6
          /\ row.interval_days = 30

\* The levels a row of rhythm_progress has unlocked.
UnlockedLevels(row) == {l \in 1..6 : row.unlocked_at[l] # 0}

\* The unlocked levels are 1..current_level.
UnlockedPrefix ==
    \A row \in rhythm_progress : UnlockedLevels(row) = 1..row.current_level

\* No two calls at one level returned next_level_unlocked = True.
UnlockReportedOnce ==
    \A i, j \in 1..Len(reports) :
        /\ reports[i].next_level_unlocked
        /\ reports[j].next_level_unlocked
        /\ reports[i].level = reports[j].level
        => i = j

\* In a step, current_level does not go down, an unlocked level keeps its
\* unlocked_at, and a level above 1 gets one only in a call of
\* update_rhythm_progress on the level below that leaves at least the
\* required consecutive passes there.
UnlockStep ==
    \A row \in rhythm_progress : \A next \in rhythm_progress' :
        /\ next.current_level >= row.current_level
        /\ \A l \in 1..6 :
              next.unlocked_at[l] # row.unlocked_at[l]
              => /\ row.unlocked_at[l] = 0
                 /\ l = level + 1
                 /\ called'.op = "update_rhythm_progress"
                 /\ called'.n = called.n + 1
                 /\ next.consecutive_passes[level]
                        >= RHYTHM_LEVEL_CONFIG[level].consecutive_passes

RECURSIVE TrailingPasses(_, _, _)
TrailingPasses(log, lvl, n) ==
    IF n = 0 THEN 0
    ELSE IF log[n].level # lvl THEN TrailingPasses(log, lvl, n - 1)
    ELSE IF log[n].passed THEN 1 + TrailingPasses(log, lvl, n - 1)
    ELSE 0

\* What a call of update_rhythm_progress(level, passed) changes in the row.
ProgressStep ==
    called'.op = "update_rhythm_progress" /\ called'.n = called.n + 1
    => \A row \in rhythm_progress : \A next \in rhythm_progress' :
        /\ next.consecutive_passes[level] =
              (IF called'.arg THEN row.consecutive_passes[level] + 1 ELSE 0)
        /\ next.consecutive_passes[level] =
              TrailingPasses(reports', level, Len(reports'))
        /\ next.total_attempts[level] = row.total_attempts[level] + 1
        /\ \A l \in 1..6 \ {level} :
              /\ next.consecutive_passes[l] = row.consecutive_passes[l]
              /\ next.total_attempts[l] = row.total_attempts[l]
              /\ l # level + 1 => next.unlocked_at[l] = row.unlocked_at[l]

\* C29: update_rhythm_progress(level, passed) leaves the consecutive_passes
\* of the level at the previous value + 1 on a pass and at 0 on a fail, which
\* is the length of the trailing run of passed attempts at that level, adds
\* exactly 1 to its total_attempts, and changes no consecutive_passes,
\* total_attempts or unlocked_at of another level but the unlocked_at of
\* level + 1.
C29_ConsecutivePasses == [][ProgressStep]_vars

\* C29 witness: at one level a pass, then a fail that put the consecutive
\* passes back to 0, then a pass that made them 1 at the third attempt.
C29_Witness ==
    \E i, j, k \in 1..Len(reports) :
        /\ i < j /\ j < k
        /\ reports[i].level = reports[k].level
        /\ reports[j].level = reports[k].level
        /\ reports[i].passed /\ reports[i].consecutive_passes = 1
        /\ ~reports[j].passed /\ reports[j].consecutive_passes = 0
        /\ reports[k].passed /\ reports[k].consecutive_passes = 1
        /\ reports[k].total_attempts = 3
        /\ \E row \in rhythm_progress :
              row.consecutive_passes[reports[k].level] = 1

\* run_drill has returned with the audio streamer stopped.
ReturnedStopped ==
    At("returned") => ~audio_streamer.running /\ audio_streamer.stream = "none"

\* stop() waits in queue.put(None) on a full queue that nothing will read:
\* running is false, so the send task ends without another get, and the
\* timeout block is left.
StopBlockedForever ==
    /\ session.run_drill \in {"put_timeout", "put_error"}
    /\ Full(audio_streamer.queue)
    /\ ~audio_streamer.running
    /\ session.send_task # "get"
    /\ session.timeout # "armed"

\* C30: every run_drill call returns, within the 30-second timeout, with the
\* audio streamer stopped on the normal, timeout and error paths, and
\* AsyncAudioStreamer.stop() never blocks forever, also when the queue of 100
\* chunks is full and the send task has stopped reading it: run_drill is
\* never left waiting in stop() with nothing that can free a slot.
C30_DrillReturns == ReturnedStopped /\ ~StopBlockedForever

\* C30 witness: connect raised while the queue was full and no send task
\* existed yet, and the stop() of the except branch waits in queue.put(None).
C30_Witness ==
    /\ At("put_error")
    /\ Len(audio_streamer.queue) = QueueMaxsize
    /\ session.send_task = "none"
    /\ ~audio_streamer.running
    /\ audio_streamer.stream = "none"

====
